---- MODULE Spec2Model ----
(***************************************************************************)
(* Model of the local data-management layer of the point-of-sale          *)
(* application: the localStorage-backed repositories (users, products,    *)
(* sales, settings), the checkout flow of the POS page, the Products      *)
(* page, the Reports aggregator and the backup export / import.           *)
(***************************************************************************)
EXTENDS Integers, Sequences, FiniteSets, TLC

(***************************************************************************)
(* Numbers.  Amounts of money are JavaScript numbers, i.e. IEEE-754       *)
(* binary64 values, and every +, -, * and / of the source rounds its      *)
(* exact result to 53 significant bits (round to nearest, ties to even).  *)
(* A non-negative number is carried exactly, as the sequence of its       *)
(* base-2^15 digits (limbs), least significant first, in units of         *)
(* 2^-(15 * FracLimbs), without leading zero limbs, so that two numbers   *)
(* are equal iff their sequences are equal.  Counts (stock, quantity,     *)
(* transactions) are small integers, on which binary64 arithmetic is      *)
(* exact; they are carried as TLA+ integers.                              *)
(***************************************************************************)
Precision == 53

LimbBits == 15

Base == 2 ^ LimbBits

FracLimbs == 5

Underflow == "underflow"

Max(a, b) == IF a >= b THEN a ELSE b

Min(a, b) == IF a <= b THEN a ELSE b

Limb(a, i) == IF i >= 1 /\ i <= Len(a) THEN a[i] ELSE 0

Zeros(k) == [i \in 1..k |-> 0]

RECURSIVE Canon(_)
Canon(a) ==
  IF a = << >> THEN a
  ELSE IF a[Len(a)] = 0 THEN Canon(SubSeq(a, 1, Len(a) - 1)) ELSE a

RECURSIVE ToLimbs(_)
ToLimbs(n) == IF n = 0 THEN << >> ELSE <<n % Base>> \o ToLimbs(n \div Base)

RECURSIVE AddFrom(_, _, _, _)
AddFrom(a, b, i, c) ==
  IF i > Max(Len(a), Len(b))
  THEN IF c = 0 THEN << >> ELSE <<c>>
  ELSE LET s == Limb(a, i) + Limb(b, i) + c
       IN  <<s % Base>> \o AddFrom(a, b, i + 1, s \div Base)

\* exact sum of two limb strings
NAdd(a, b) == AddFrom(a, b, 1, 0)

RECURSIVE SubFrom(_, _, _, _)
SubFrom(a, b, i, c) ==
  IF i > Len(a) THEN << >>
  ELSE LET d == Limb(a, i) - Limb(b, i) - c
       IN  <<IF d < 0 THEN d + Base ELSE d>>
             \o SubFrom(a, b, i + 1, IF d < 0 THEN 1 ELSE 0)

\* exact difference a - b of two limb strings, for a >= b
NSub(a, b) == Canon(SubFrom(a, b, 1, 0))

\* a < b on limb strings without leading zeros
NLt(a, b) ==
  \/ Len(a) < Len(b)
  \/ /\ Len(a) = Len(b)
     /\ \E i \in 1..Len(a) :
          a[i] < b[i] /\ \A j \in (i + 1)..Len(a) : a[j] = b[j]

RECURSIVE MulLimb(_, _, _, _)
MulLimb(a, m, i, c) ==
  IF i > Len(a)
  THEN IF c = 0 THEN << >> ELSE <<c>>
  ELSE LET s == a[i] * m + c
       IN  <<s % Base>> \o MulLimb(a, m, i + 1, s \div Base)

RECURSIVE MulFrom(_, _, _)
MulFrom(a, b, j) ==
  IF j > Len(b) THEN << >>
  ELSE NAdd(Zeros(j - 1) \o MulLimb(a, b[j], 1, 0), MulFrom(a, b, j + 1))

\* exact product of two limb strings
NMul(a, b) == Canon(MulFrom(a, b, 1))

RECURSIVE RemFrom(_, _, _)
RemFrom(a, n, i) ==
  IF i > Len(a) THEN 0 ELSE (RemFrom(a, n, i + 1) * Base + a[i]) % n

\* quotient and remainder of a limb string by an integer 0 < n < Base
NDiv(a, n) ==
  [q |-> Canon([i \in 1..Len(a) |->
                  (RemFrom(a, n, i + 1) * Base + a[i]) \div n]),
   r |-> RemFrom(a, n, 1)]

\* number of significant bits of a limb, and of a limb string
LimbLength(x) ==
  CHOOSE k \in 0..LimbBits : x < 2 ^ k /\ (k = 0 \/ x >= 2 ^ (k - 1))

BitLength(a) ==
  IF a = << >> THEN 0
  ELSE LimbBits * (Len(a) - 1) + LimbLength(a[Len(a)])

\* bit number p of a limb string, the lowest bit being number 0
BitAt(a, p) == (Limb(a, (p \div LimbBits) + 1) \div (2 ^ (p % LimbBits))) % 2

\* round an exact result to Precision significant bits, nearest, ties to
\* even; sticky tells that the exact result has further non-zero bits
\* below the limb string
Round(a, sticky) ==
  LET cut == BitLength(a) - Precision
  IN  IF cut <= 0 THEN a
      ELSE LET gi    == ((cut - 1) \div LimbBits) + 1
               go    == (cut - 1) % LimbBits
               ki    == (cut \div LimbBits) + 1
               ko    == cut % LimbBits
               guard == BitAt(a, cut - 1)
               st    == \/ sticky
                        \/ a[gi] % (2 ^ go) # 0
                        \/ \E i \in 1..(gi - 1) : a[i] # 0
               kept  == [i \in 1..Len(a) |->
                           IF i < ki THEN 0
                           ELSE IF i = ki
                                THEN (a[i] \div (2 ^ ko)) * (2 ^ ko)
                                ELSE a[i]]
               up    == guard = 1 /\ (st \/ BitAt(a, cut) = 1)
           IN  IF up THEN NAdd(kept, Zeros(ki - 1) \o <<2 ^ ko>>) ELSE kept

\* rescale by Base^-k; a result finer than the carrier is reported, never
\* lost
Drop(a, k) ==
  IF a = << >> THEN a
  ELSE IF Len(a) <= k \/ \E i \in 1..k : a[i] # 0 THEN Underflow
       ELSE SubSeq(a, k + 1, Len(a))

\* the number n, for an integer n >= 0
Num(n) == IF n = 0 THEN << >> ELSE Zeros(FracLimbs) \o ToLimbs(n)

\* x + y
FAdd(x, y) == Round(NAdd(x, y), FALSE)

\* x - y, for x >= y
FSub(x, y) == Round(NSub(x, y), FALSE)

\* x * y
FMul(x, y) == Drop(Round(NMul(x, y), FALSE), FracLimbs)

\* x / n, for an integer 0 < n < Base
FDiv(x, n) ==
  LET d == NDiv(Zeros(FracLimbs) \o x, n)
  IN  IF x = << >> THEN x ELSE Drop(Round(d.q, d.r # 0), FracLimbs)

\* x < y
FLt(x, y) == NLt(x, y)

\* the decimal literal n / d (d a power of ten) written in the source or
\* typed in a form
Dec(n, d) == FDiv(Num(n), d)

(***************************************************************************)
(* State.  The five localStorage keys hold Null (key absent) or the text  *)
(* written by storage.set; the other variables are the React state of the *)
(* mounted components and the environment (clock, downloaded file).       *)
(***************************************************************************)
VARIABLES
  pos_users,         \* localStorage['pos_users']
  pos_products,      \* localStorage['pos_products']
  pos_sales,         \* localStorage['pos_sales']
  pos_settings,      \* localStorage['pos_settings']
  pos_current_user,  \* localStorage['pos_current_user']
  now,               \* Date.now(), in clock ticks
  user,              \* AuthProvider: user
  searchResults,     \* POS: searchResults
  cart,              \* POS: cart
  showCheckout,      \* POS: showCheckout
  paymentMethod,     \* POS: paymentMethod
  amountPaid,        \* POS: amountPaid (the text of the input)
  lastSale,          \* POS: lastSale
  showReceiptDialog, \* POS: showReceiptDialog
  reportData,        \* Reports: reportData
  download,          \* the backup file written by the last exportData
  last               \* the last call: its name, arguments, result and the
                     \* values read before it

vars == <<pos_users, pos_products, pos_sales, pos_settings, pos_current_user,
          now, user, searchResults, cart, showCheckout, paymentMethod,
          amountPaid, lastSale, showReceiptDialog, reportData, download,
          last>>

storeVars == <<pos_users, pos_products, pos_sales, pos_settings,
               pos_current_user>>

posVars == <<searchResults, cart, showCheckout, paymentMethod, amountPaid,
             lastSale, showReceiptDialog>>

\* null, and the absence of a localStorage key
Null == [null |-> TRUE]

Undefined == "undefined"

(***************************************************************************)
(* Bounds of the model.                                                    *)
(***************************************************************************)
MaxClock == 1        \* the clock stops after this many ticks

MaxRand == 1         \* Math.random() takes MaxRand + 1 values

MaxProducts == 2     \* products created through the Products page

MaxSales == 1        \* sales recorded through the checkout

MaxUsers == 3        \* users stored by the user repository

MaxReceipts == 2     \* sales of the ledger that is watched sale by sale

MaxQuantity == 2     \* quantity of a cart line

MaxStock == 2        \* stock reached through the + button and updateStock

DayLength == 1       \* clock ticks per calendar day

(***************************************************************************)
(* Key-value substrate.                                                    *)
(***************************************************************************)
\* JSON.stringify drops the properties whose value is undefined; the only
\* such property of the stored records is CartItem.variantId
JSON_item(item) ==
  IF "variantId" \in DOMAIN item /\ item.variantId = Undefined
  THEN [f \in DOMAIN item \ {"variantId"} |-> item[f]]
  ELSE item

JSON_sale(sale) ==
  [sale EXCEPT !.items = [i \in 1..Len(sale.items) |-> JSON_item(sale.items[i])]]

JSON_sales(sales) == [i \in 1..Len(sales) |-> JSON_sale(sales[i])]

\* the text of a value (already free of undefined properties)
JSON_stringify(value) == [text |-> value]

\* a text that JSON.parse rejects, as a file or under a key of the store
SyntaxErrorFile == [syntaxError |-> TRUE]

parses(file) == "text" \in DOMAIN file

\* the SyntaxError that JSON.parse throws
SyntaxError == [name |-> "SyntaxError"]

JSON_parse(item) == IF parses(item) THEN item.text ELSE SyntaxError

\* storage.get gives null: the key is absent, or JSON.parse throws and the
\* catch returns null
storage_getsNull_missingOnly(item) == item = Null

storage_getsNull(item) == item = Null \/ ~parses(item)

\* storage.get.  No stored text is empty and no stored value is falsy, so
\* that `item ? ... : null` and the callers' `storage.get(key) || fallback`
\* both test for the null that storage.get gives
storage_get(item) == IF storage_getsNull(item) THEN Null ELSE JSON_parse(item)

\* storage.set: the text stored under the key
storage_set(value) == JSON_stringify(value)

\* Utility function to generate unique IDs: Date.now() in base 36 followed
\* by the digits of Math.random()
generateId(t, r) == <<t, r>>

\* new Date().toISOString() and its calendar day
toISOString(t) == t

ISODate(t) == t \div DayLength

Rand == 0..MaxRand

(***************************************************************************)
(* Product repository.  Every operation takes the stored item and returns *)
(* its result together with the item stored afterwards.                   *)
(***************************************************************************)
productStorage_getAll(item) ==
  IF storage_getsNull(item) THEN << >> ELSE storage_get(item)

productStorage_save(products) == storage_set(products)

\* products.findIndex(p => p.id === id), 0 for -1
findIndex(list, id) ==
  IF \E i \in 1..Len(list) : list[i].id = id
  THEN CHOOSE i \in 1..Len(list) :
         list[i].id = id /\ \A j \in 1..(i - 1) : list[j].id # id
  ELSE 0

productStorage_add(item, product, t, r) ==
  LET products   == productStorage_getAll(item)
      newProduct == [id |-> generateId(t, r), name |-> product.name,
                     code |-> product.code, category |-> product.category,
                     price |-> product.price, stock |-> product.stock,
                     minStock |-> product.minStock,
                     isActive |-> product.isActive,
                     createdAt |-> toISOString(t), updatedAt |-> toISOString(t)]
  IN  [ret |-> newProduct,
       item |-> productStorage_save(Append(products, newProduct))]

\* updates is a record holding a subset of the fields of a product
productStorage_update_staleTimestamp(item, id, updates, t) ==
  LET products == productStorage_getAll(item)
      index    == findIndex(products, id)
      merged   == [f \in DOMAIN products[index] \cup DOMAIN updates |->
                     IF f \in DOMAIN updates THEN updates[f]
                     ELSE products[index][f]]
  IN  IF index = 0 THEN [ret |-> FALSE, item |-> item]
      ELSE [ret |-> TRUE,
            item |-> productStorage_save([products EXCEPT ![index] = merged])]

productStorage_update(item, id, updates, t) ==
  LET products == productStorage_getAll(item)
      index    == findIndex(products, id)
      merged   == [f \in DOMAIN products[index] \cup DOMAIN updates
                                                   \cup {"updatedAt"} |->
                     IF f = "updatedAt" THEN toISOString(t)
                     ELSE IF f \in DOMAIN updates THEN updates[f]
                     ELSE products[index][f]]
  IN  IF index = 0 THEN [ret |-> FALSE, item |-> item]
      ELSE [ret |-> TRUE,
            item |-> productStorage_save([products EXCEPT ![index] = merged])]

productStorage_delete(item, id) ==
  LET products == productStorage_getAll(item)
      keep(p)  == p.id # id
      filtered == SelectSeq(products, keep)
  IN  IF Len(filtered) = Len(products) THEN [ret |-> FALSE, item |-> item]
      ELSE [ret |-> TRUE, item |-> productStorage_save(filtered)]

\* the stock computed by updateStock
newStockOf(currentStock, quantity, operation) ==
  IF operation = "add" THEN currentStock + quantity
  ELSE currentStock - quantity

\* updateStock without its test of the new stock
updateStock_unguarded(item, id, quantity, operation, t) ==
  LET products == productStorage_getAll(item)
      index    == findIndex(products, id)
      newStock == newStockOf(products[index].stock, quantity, operation)
  IN  IF index = 0 THEN [ret |-> FALSE, item |-> item]
      ELSE [ret |-> TRUE,
            item |-> productStorage_save(
                       [products EXCEPT ![index].stock = newStock,
                                        ![index].updatedAt = toISOString(t)])]

productStorage_updateStock(item, id, quantity, operation, t) ==
  LET products == productStorage_getAll(item)
      index    == findIndex(products, id)
      newStock == newStockOf(products[index].stock, quantity, operation)
  IN  IF index = 0 THEN [ret |-> FALSE, item |-> item]
      ELSE IF newStock < 0 THEN [ret |-> FALSE, item |-> item]
      ELSE [ret |-> TRUE,
            item |-> productStorage_save(
                       [products EXCEPT ![index].stock = newStock,
                                        ![index].updatedAt = toISOString(t)])]

\* one alert for each active product at or under its minimum stock
getLowStockAlerts_nonPositive(item) ==
  LET low(p)   == p.isActive /\ p.stock <= p.minStock
      alert(p) == [productId |-> p.id, productName |-> p.name,
                   currentStock |-> p.stock, minStock |-> p.minStock,
                   severity |-> IF p.stock <= 0 THEN "critical" ELSE "low"]
      lowStock == SelectSeq(productStorage_getAll(item), low)
  IN  [i \in 1..Len(lowStock) |-> alert(lowStock[i])]

productStorage_getLowStockAlerts(item) ==
  LET low(p)   == p.isActive /\ p.stock <= p.minStock
      alert(p) == [productId |-> p.id, productName |-> p.name,
                   currentStock |-> p.stock, minStock |-> p.minStock,
                   severity |-> IF p.stock = 0 THEN "critical" ELSE "low"]
      lowStock == SelectSeq(productStorage_getAll(item), low)
  IN  [i \in 1..Len(lowStock) |-> alert(lowStock[i])]

(***************************************************************************)
(* Settings store.                                                         *)
(***************************************************************************)
DefaultTaxRate == Dec(12, 100)

DefaultSettings ==
  [storeName |-> "Sari-sari Store", storeAddress |-> "123 Main Street",
   storePhone |-> "+63 123 456 7890", taxRate |-> DefaultTaxRate,
   currency |-> "PHP"]

settingsStorage_get_defaultsOnly(item) == DefaultSettings

settingsStorage_get(item) ==
  IF storage_getsNull(item) THEN DefaultSettings ELSE storage_get(item)

settingsStorage_save(settings) == storage_set(settings)

(***************************************************************************)
(* Sales repository.                                                       *)
(***************************************************************************)
salesStorage_getAll(item) ==
  IF storage_getsNull(item) THEN << >> ELSE storage_get(item)

salesStorage_save(sales) == storage_set(JSON_sales(sales))

\* sale.items.forEach(item => productStorage.updateStock(item.productId,
\* item.quantity)): the products stored after the items from i on
RECURSIVE updateStockEach(_, _, _, _)
updateStockEach(item, items, i, t) ==
  IF i > Len(items) THEN item
  ELSE updateStockEach(
         productStorage_updateStock(item, items[i].productId,
                                    items[i].quantity, "subtract", t).item,
         items, i + 1, t)

\* sale holds the fields of a Sale but id, timestamp and date
salesStorage_add(salesItem, productsItem, sale, t, r) ==
  LET sales   == salesStorage_getAll(salesItem)
      newSale == [id |-> generateId(t, r), items |-> sale.items,
                  subtotal |-> sale.subtotal, tax |-> sale.tax,
                  discount |-> sale.discount, total |-> sale.total,
                  paymentMethod |-> sale.paymentMethod,
                  amountPaid |-> sale.amountPaid, change |-> sale.change,
                  cashierId |-> sale.cashierId,
                  cashierName |-> sale.cashierName,
                  receiptPrinted |-> sale.receiptPrinted,
                  timestamp |-> toISOString(t), date |-> ISODate(t)]
  IN  [ret |-> newSale,
       products |-> updateStockEach(productsItem, sale.items, 1, t),
       sales |-> salesStorage_save(Append(sales, newSale))]

(***************************************************************************)
(* POS page: the cart and the checkout.                                    *)
(***************************************************************************)
\* cart.find(item => item.productId === productId &&
\*                   item.variantId === variantId), 0 when there is none
findItem(items, productId, variantId) ==
  IF \E i \in 1..Len(items) :
       items[i].productId = productId /\ items[i].variantId = variantId
  THEN CHOOSE i \in 1..Len(items) :
         /\ items[i].productId = productId /\ items[i].variantId = variantId
         /\ \A j \in 1..(i - 1) :
              ~(items[j].productId = productId /\ items[j].variantId = variantId)
  ELSE 0

removeFromCart(items, productId, variantId) ==
  LET keep(item) == ~(item.productId = productId /\ item.variantId = variantId)
  IN  SelectSeq(items, keep)

\* updateCartQuantity leaving the total of the line as it was
updateCartQuantity_staleTotal(items, productId, quantity, variantId) ==
  IF quantity <= 0 THEN removeFromCart(items, productId, variantId)
  ELSE [i \in 1..Len(items) |->
          IF items[i].productId = productId /\ items[i].variantId = variantId
          THEN [items[i] EXCEPT !.quantity = quantity]
          ELSE items[i]]

updateCartQuantity(items, productId, quantity, variantId) ==
  IF quantity <= 0 THEN removeFromCart(items, productId, variantId)
  ELSE [i \in 1..Len(items) |->
          IF items[i].productId = productId /\ items[i].variantId = variantId
          THEN [items[i] EXCEPT !.quantity = quantity,
                                !.total = FMul(items[i].price, Num(quantity))]
          ELSE items[i]]

\* addToCart that does not look for an existing line
addToCart_alwaysAppends(items, product, variantId) ==
  Append(items, [productId |-> product.id, variantId |-> variantId,
                 name |-> product.name, price |-> product.price,
                 quantity |-> 1, total |-> product.price])

\* the products of this model have no variants
addToCart(items, product, variantId) ==
  LET existing == findItem(items, product.id, variantId)
      newItem  == [productId |-> product.id, variantId |-> variantId,
                   name |-> product.name, price |-> product.price,
                   quantity |-> 1, total |-> product.price]
  IN  IF existing # 0
      THEN updateCartQuantity(items, items[existing].productId,
                              items[existing].quantity + 1, variantId)
      ELSE Append(items, newItem)

\* cart.reduce((sum, item) => sum + item.total, 0), over the first n items
RECURSIVE sumTotals(_, _)
sumTotals(items, n) ==
  IF n = 0 THEN Num(0) ELSE FAdd(sumTotals(items, n - 1), items[n].total)

calculateSubtotal(items) == sumTotals(items, Len(items))

calculateTax(subtotal, settingsItem) ==
  FMul(subtotal, settingsStorage_get(settingsItem).taxRate)

calculateTotal(items, settingsItem) ==
  FAdd(calculateSubtotal(items),
       calculateTax(calculateSubtotal(items), settingsItem))

\* parseFloat(amountPaid) || 0: the input holds no text or a whole number
parseFloatOr0(text) == IF text = << >> THEN Num(0) ELSE Num(text[1])

\* a draft sale whose change is computed whatever the payment method
draftSale_changeAnyMethod(items, settingsItem, method, paidText, cashier) ==
  LET subtotal == calculateSubtotal(items)
      tax      == calculateTax(subtotal, settingsItem)
      total    == calculateTotal(items, settingsItem)
      paid     == parseFloatOr0(paidText)
  IN  [items |-> items, subtotal |-> subtotal, tax |-> tax,
       discount |-> Num(0), total |-> total, paymentMethod |-> method,
       amountPaid |-> paid,
       change |-> IF FLt(paid, total) THEN Num(0) ELSE FSub(paid, total),
       cashierId |-> cashier.id, cashierName |-> cashier.username,
       receiptPrinted |-> FALSE]

\* the draft sale handed to salesStorage.add by processSale
draftSale(items, settingsItem, method, paidText, cashier) ==
  LET subtotal == calculateSubtotal(items)
      tax      == calculateTax(subtotal, settingsItem)
      total    == calculateTotal(items, settingsItem)
      paid     == parseFloatOr0(paidText)
  IN  [items |-> items, subtotal |-> subtotal, tax |-> tax,
       discount |-> Num(0), total |-> total, paymentMethod |-> method,
       amountPaid |-> paid,
       change |-> IF method = "cash"
                  THEN (IF FLt(paid, total) THEN Num(0) ELSE FSub(paid, total))
                  ELSE Num(0),
       cashierId |-> cashier.id, cashierName |-> cashier.username,
       receiptPrinted |-> FALSE]

(***************************************************************************)
(* Default data (initializeDefaultData): the two default users and, of    *)
(* the five sample products, the two cheapest.                            *)
(***************************************************************************)
DefaultUsers ==
  << [id |-> generateId(0, 0), username |-> "admin", password |-> "admin123",
      role |-> "admin", createdAt |-> toISOString(0), isActive |-> TRUE],
     [id |-> generateId(0, 1), username |-> "cashier",
      password |-> "cashier123", role |-> "cashier",
      createdAt |-> toISOString(0), isActive |-> TRUE] >>

Price15 == Num(15)

Price12 == Num(12)

\* the sample products, holding the given stock
SampleProducts(stock1, stock2) ==
  << [id |-> generateId(0, 2), name |-> "Lucky Me Pancit Canton",
      code |-> "LM-PC", category |-> "Instant Noodles", price |-> Price15,
      stock |-> stock1, minStock |-> 1, isActive |-> TRUE,
      createdAt |-> toISOString(0), updatedAt |-> toISOString(0)],
     [id |-> generateId(0, 3), name |-> "Skyflakes Crackers",
      code |-> "SF-CRACK", category |-> "Snacks", price |-> Price12,
      stock |-> stock2, minStock |-> 1, isActive |-> TRUE,
      createdAt |-> toISOString(0), updatedAt |-> toISOString(0)] >>

\* POS effect on searchQuery, empty query: the first 8 active products
popularProducts(item) ==
  LET isActive(p) == p.isActive
      active      == SelectSeq(productStorage_getAll(item), isActive)
  IN  SubSeq(active, 1, Min(8, Len(active)))

(***************************************************************************)
(* The POS page, mounted for the logged-in cashier over a catalogue whose *)
(* stock levels are the ones an administrator has set.                    *)
(***************************************************************************)
InitPOS ==
  /\ pos_users = storage_set(DefaultUsers)
  /\ \E s1 \in 1..MaxStock, s2 \in 0..1 :
       pos_products = storage_set(SampleProducts(s1, s2))
  /\ pos_sales = Null
  /\ pos_settings = Null
  /\ pos_current_user = storage_set(DefaultUsers[2])
  /\ now = 0
  /\ user = DefaultUsers[2]
  /\ searchResults = popularProducts(pos_products)
  /\ cart = << >>
  /\ showCheckout = FALSE
  /\ paymentMethod = "cash"
  /\ amountPaid = << >>
  /\ lastSale = Null
  /\ showReceiptDialog = FALSE
  /\ reportData = Null
  /\ download = Null
  /\ last = [op |-> "init"]

\* no dialog is open over the page
PageActive == ~showCheckout /\ ~showReceiptDialog

\* the searchQuery effect, run again with an empty query
POS_search ==
  /\ PageActive
  /\ searchResults' = popularProducts(pos_products)
  /\ last' = [op |-> "search"]
  /\ UNCHANGED <<storeVars, now, user, cart, showCheckout, paymentMethod,
                 amountPaid, lastSale, showReceiptDialog, reportData,
                 download>>

setCart(op, items) ==
  /\ cart' = items
  /\ last' = [op |-> op]
  /\ UNCHANGED <<storeVars, now, user, searchResults, showCheckout,
                 paymentMethod, amountPaid, lastSale, showReceiptDialog,
                 reportData, download>>

\* the Add button of a search result, disabled when the listed stock is 0
\* (no new cart is started once the ledger holds MaxSales sales)
addToCartUpTo(maxSales) ==
  /\ PageActive
  /\ Len(salesStorage_getAll(pos_sales)) < maxSales
  /\ \E i \in 1..Len(searchResults) :
       /\ searchResults[i].stock # 0
       /\ \A j \in 1..Len(cart) :
            cart[j].productId = searchResults[i].id
              => cart[j].quantity < MaxQuantity
       /\ setCart("addToCart", addToCart(cart, searchResults[i], Undefined))

POS_addToCart == addToCartUpTo(MaxSales)

\* the + button of a cart line
POS_increment ==
  /\ PageActive
  /\ \E i \in 1..Len(cart) :
       /\ cart[i].quantity < MaxQuantity
       /\ setCart("increment",
                  updateCartQuantity(cart, cart[i].productId,
                                     cart[i].quantity + 1, cart[i].variantId))

\* the - button of a cart line
POS_decrement ==
  /\ PageActive
  /\ \E i \in 1..Len(cart) :
       setCart("decrement",
               updateCartQuantity(cart, cart[i].productId,
                                  cart[i].quantity - 1, cart[i].variantId))

\* the remove button of a cart line
POS_removeFromCart ==
  /\ PageActive
  /\ \E i \in 1..Len(cart) :
       setCart("removeFromCart",
               removeFromCart(cart, cart[i].productId, cart[i].variantId))

\* the Clear button, shown with a non-empty cart
POS_clearCart ==
  /\ PageActive
  /\ cart # << >>
  /\ setCart("clearCart", << >>)

POS_handleCheckout ==
  /\ PageActive
  /\ showCheckout' = (cart # << >>)
  /\ last' = [op |-> "handleCheckout"]
  /\ UNCHANGED <<storeVars, now, user, searchResults, cart, paymentMethod,
                 amountPaid, lastSale, showReceiptDialog, reportData,
                 download>>

\* the Cancel button of the checkout dialog
POS_cancelCheckout ==
  /\ showCheckout
  /\ showCheckout' = FALSE
  /\ last' = [op |-> "cancelCheckout"]
  /\ UNCHANGED <<storeVars, now, user, searchResults, cart, paymentMethod,
                 amountPaid, lastSale, showReceiptDialog, reportData,
                 download>>

PaymentMethods == {"cash", "card", "other"}

\* what the cashier types as the amount paid: nothing, or a whole amount
AmountsPaid == {<< >>, <<20>>, <<100>>}

POS_setPaymentMethod ==
  /\ showCheckout
  /\ \E method \in PaymentMethods :
       /\ method # paymentMethod
       /\ paymentMethod' = method
  /\ last' = [op |-> "setPaymentMethod"]
  /\ UNCHANGED <<storeVars, now, user, searchResults, cart, showCheckout,
                 amountPaid, lastSale, showReceiptDialog, reportData,
                 download>>

\* the amount input, shown for a cash payment
POS_setAmountPaid ==
  /\ showCheckout
  /\ paymentMethod = "cash"
  /\ \E text \in AmountsPaid :
       /\ text # amountPaid
       /\ amountPaid' = text
  /\ last' = [op |-> "setAmountPaid"]
  /\ UNCHANGED <<storeVars, now, user, searchResults, cart, showCheckout,
                 paymentMethod, lastSale, showReceiptDialog, reportData,
                 download>>

\* the Complete Sale button of the checkout dialog
processSaleUpTo(maxSales) ==
  /\ showCheckout
  /\ Len(salesStorage_getAll(pos_sales)) < maxSales
  /\ LET draft == draftSale(cart, pos_settings, paymentMethod, amountPaid, user)
     IN  IF user = Null
         THEN /\ last' = [op |-> "processSale", ret |-> Null]
              /\ UNCHANGED <<storeVars, now, user, posVars, reportData,
                             download>>
         ELSE IF paymentMethod = "cash" /\ FLt(draft.amountPaid, draft.total)
         THEN /\ last' = [op |-> "processSale", ret |-> Null]
              /\ UNCHANGED <<storeVars, now, user, posVars, reportData,
                             download>>
         ELSE \E r \in Rand :
                LET res == salesStorage_add(pos_sales, pos_products, draft,
                                            now, r)
                IN  /\ pos_sales' = res.sales
                    /\ pos_products' = res.products
                    /\ lastSale' = res.ret
                    /\ showCheckout' = FALSE
                    /\ showReceiptDialog' = TRUE
                    /\ cart' = << >>
                    /\ amountPaid' = << >>
                    /\ last' = [op |-> "processSale", ret |-> res.ret]
                    /\ UNCHANGED <<pos_users, pos_settings, pos_current_user,
                                   now, user, searchResults, paymentMethod,
                                   reportData, download>>

POS_processSale == processSaleUpTo(MaxSales)

\* the Yes, Print Receipt button of the receipt dialog
POS_handlePrintReceipt ==
  /\ showReceiptDialog
  /\ IF lastSale # Null
     THEN pos_sales' =
            salesStorage_save(
              [i \in 1..Len(salesStorage_getAll(pos_sales)) |->
                 IF salesStorage_getAll(pos_sales)[i].id = lastSale.id
                 THEN [salesStorage_getAll(pos_sales)[i]
                         EXCEPT !.receiptPrinted = TRUE]
                 ELSE salesStorage_getAll(pos_sales)[i]])
     ELSE UNCHANGED pos_sales
  /\ showReceiptDialog' = FALSE
  /\ lastSale' = Null
  /\ last' = [op |-> "handlePrintReceipt"]
  /\ UNCHANGED <<pos_users, pos_products, pos_settings, pos_current_user,
                 now, user, searchResults, cart, showCheckout, paymentMethod,
                 amountPaid, reportData, download>>

\* the No, Skip Receipt button, or closing the receipt dialog
POS_skipReceipt ==
  /\ showReceiptDialog
  /\ showReceiptDialog' = FALSE
  /\ last' = [op |-> "skipReceipt"]
  /\ UNCHANGED <<storeVars, now, user, searchResults, cart, showCheckout,
                 paymentMethod, amountPaid, lastSale, reportData, download>>

NextPOS ==
  \/ POS_search
  \/ POS_addToCart
  \/ POS_increment
  \/ POS_decrement
  \/ POS_removeFromCart
  \/ POS_clearCart
  \/ POS_handleCheckout
  \/ POS_cancelCheckout
  \/ POS_setPaymentMethod
  \/ POS_setAmountPaid
  \/ POS_processSale
  \/ POS_handlePrintReceipt
  \/ POS_skipReceipt

SpecPOS == InitPOS /\ [][NextPOS]_vars

\* the stock of the product a line item refers to (0 when it is gone)
stockOf(item, productId) ==
  LET products == productStorage_getAll(item)
      index    == findIndex(products, productId)
  IN  IF index = 0 THEN 0 ELSE products[index].stock

(***************************************************************************)
(* Products page.  Its products list is reloaded from the repository      *)
(* (loadProducts) when the page mounts and after every handler, so it is  *)
(* the stored collection whenever a handler runs.                         *)
(***************************************************************************)
\* String.prototype.toUpperCase, on the codes typed in this model
toUpperCase(text) ==
  CASE text = "chip" -> "CHIP"
    [] text = "lm-pc" -> "LM-PC"
    [] OTHER -> text

\* the text of a number input: empty, or the decimal text of a number
NoText == << >>

toString(x) == <<x>>

\* parseInt(text) || 0 and parseFloat(text), on such texts
parseIntOr0(text) == IF text = NoText THEN 0 ELSE text[1]

parseFloat(text) == text[1]

\* the product data built by handleSubmit from the form
productData(formData) ==
  [name |-> formData.name, code |-> toUpperCase(formData.code),
   category |-> formData.category, price |-> parseFloat(formData.price),
   stock |-> parseIntOr0(formData.stock),
   minStock |-> parseIntOr0(formData.minStock),
   isActive |-> formData.isActive]

\* handleEditProduct: the form filled from the product
editForm(product) ==
  [name |-> product.name, code |-> product.code,
   category |-> product.category, price |-> toString(product.price),
   stock |-> toString(product.stock), minStock |-> toString(product.minStock),
   isActive |-> product.isActive]

\* what the administrator types in the stock input
StockTexts == {NoText, toString(-1), toString(1)}

Price10 == Num(10)

\* the forms submitted for a new product
NewForms ==
  [name : {"Chippy"}, code : {"chip", "lm-pc"}, category : {"Snacks"},
   price : {toString(Price10)}, stock : StockTexts, minStock : {NoText},
   isActive : {TRUE}]

\* the forms submitted for an existing product: its own data with the
\* stock retyped
EditForms(product) ==
  {[editForm(product) EXCEPT !.stock = text] : text \in StockTexts}

catalogUnchanged ==
  UNCHANGED <<pos_users, pos_settings, pos_current_user, now, user, posVars,
              reportData, download>>

\* handleSubmit of the dialog opened by Add Product
Products_handleSubmit_add ==
  /\ Len(productStorage_getAll(pos_products)) < MaxProducts
  /\ \E formData \in NewForms, r \in Rand :
       LET data     == productData(formData)
           products == productStorage_getAll(pos_products)
       IN  IF \E i \in 1..Len(products) : products[i].code = data.code
           THEN /\ last' = [op |-> "handleSubmit", ret |-> FALSE]
                /\ UNCHANGED pos_products
           ELSE /\ pos_products' =
                     productStorage_add(pos_products, data, now, r).item
                /\ last' = [op |-> "handleSubmit", ret |-> TRUE]
  /\ UNCHANGED pos_sales
  /\ catalogUnchanged

\* handleSubmit of the dialog opened by the edit button of a product
Products_handleSubmit_edit ==
  /\ \E i \in 1..Len(productStorage_getAll(pos_products)) :
       \E formData \in EditForms(productStorage_getAll(pos_products)[i]) :
         LET res == productStorage_update(
                      pos_products, productStorage_getAll(pos_products)[i].id,
                      productData(formData), now)
         IN  /\ pos_products' = res.item
             /\ last' = [op |-> "handleSubmit", ret |-> res.ret]
  /\ UNCHANGED pos_sales
  /\ catalogUnchanged

\* updateStock of the page: the - and + buttons of a product row
Products_updateStock ==
  /\ \E i \in 1..Len(productStorage_getAll(pos_products)), d \in {-1, 1} :
       LET product  == productStorage_getAll(pos_products)[i]
           newStock == product.stock + d
           res      == productStorage_update(pos_products, product.id,
                                             [stock |-> newStock], now)
       IN  /\ newStock <= MaxStock
           /\ IF newStock < 0
              THEN /\ last' = [op |-> "Products.updateStock", ret |-> FALSE]
                   /\ UNCHANGED pos_products
              ELSE /\ pos_products' = res.item
                   /\ last' = [op |-> "Products.updateStock", ret |-> res.ret]
  /\ UNCHANGED pos_sales
  /\ catalogUnchanged

Products_toggleProductStatus ==
  /\ \E i \in 1..Len(productStorage_getAll(pos_products)) :
       LET product == productStorage_getAll(pos_products)[i]
           res     == productStorage_update(pos_products, product.id,
                        [isActive |-> ~product.isActive], now)
       IN  /\ pos_products' = res.item
           /\ last' = [op |-> "toggleProductStatus", ret |-> res.ret]
  /\ UNCHANGED pos_sales
  /\ catalogUnchanged

Products_handleDeleteProduct ==
  /\ \E i \in 1..Len(productStorage_getAll(pos_products)) :
       LET res == productStorage_delete(
                    pos_products, productStorage_getAll(pos_products)[i].id)
       IN  /\ pos_products' = res.item
           /\ last' = [op |-> "handleDeleteProduct", ret |-> res.ret]
  /\ UNCHANGED pos_sales
  /\ catalogUnchanged

(***************************************************************************)
(* Direct calls of the repositories.                                       *)
(***************************************************************************)
\* the identifiers handed to a repository: those stored, and one that is not
productIds(item) ==
  {productStorage_getAll(item)[i].id :
     i \in 1..Len(productStorage_getAll(item))} \cup {generateId(0, 9)}

Quantities == -1..MaxQuantity

Repo_updateStock ==
  /\ \E id \in productIds(pos_products), quantity \in Quantities,
        operation \in {"add", "subtract"} :
       LET res == productStorage_updateStock(pos_products, id, quantity,
                                             operation, now)
       IN  /\ newStockOf(stockOf(pos_products, id), quantity, operation)
                <= MaxStock
           /\ pos_products' = res.item
           /\ last' = [op |-> "updateStock", id |-> id,
                       quantity |-> quantity, operation |-> operation,
                       ret |-> res.ret]
  /\ UNCHANGED pos_sales
  /\ catalogUnchanged

\* salesStorage.add of a sale of one line, paid by card
Repo_salesAdd ==
  /\ Len(salesStorage_getAll(pos_sales)) < MaxSales
  /\ user # Null
  /\ \E i \in 1..Len(productStorage_getAll(pos_products)),
        quantity \in 1..MaxQuantity, r \in Rand :
       LET items == updateCartQuantity(
                      addToCart(<< >>, productStorage_getAll(pos_products)[i],
                                Undefined),
                      productStorage_getAll(pos_products)[i].id, quantity,
                      Undefined)
           res   == salesStorage_add(
                      pos_sales, pos_products,
                      draftSale(items, pos_settings, "card", NoText, user),
                      now, r)
       IN  /\ pos_sales' = res.sales
           /\ pos_products' = res.products
           /\ last' = [op |-> "salesStorage.add", ret |-> res.ret]
  /\ catalogUnchanged

\* the Products page and the repositories some time after the default
\* data was created, when one of the sample products is left
InitCatalog ==
  /\ pos_users = storage_set(DefaultUsers)
  /\ \E s1 \in 0..1 :
       pos_products = storage_set(SubSeq(SampleProducts(s1, 1), 1, 1))
  /\ pos_sales = Null
  /\ pos_settings = Null
  /\ pos_current_user = storage_set(DefaultUsers[1])
  /\ now = 1
  /\ user = DefaultUsers[1]
  /\ searchResults = << >>
  /\ cart = << >>
  /\ showCheckout = FALSE
  /\ paymentMethod = "cash"
  /\ amountPaid = NoText
  /\ lastSale = Null
  /\ showReceiptDialog = FALSE
  /\ reportData = Null
  /\ download = Null
  /\ last = [op |-> "init"]

NextCatalog ==
  \/ Products_handleSubmit_add
  \/ Products_handleSubmit_edit
  \/ Products_updateStock
  \/ Products_handleDeleteProduct
  \/ Repo_salesAdd

SpecCatalog == InitCatalog /\ [][NextCatalog]_vars

Repo_getLowStockAlerts ==
  /\ last' = [op |-> "getLowStockAlerts",
              ret |-> productStorage_getLowStockAlerts(pos_products)]
  /\ UNCHANGED <<pos_products, pos_sales>>
  /\ catalogUnchanged

\* the product repository with both sample products, called directly
InitStock ==
  /\ pos_users = storage_set(DefaultUsers)
  /\ \E s1 \in 0..1, s2 \in 1..MaxStock :
       pos_products = storage_set(SampleProducts(s1, s2))
  /\ pos_sales = Null
  /\ pos_settings = Null
  /\ pos_current_user = storage_set(DefaultUsers[1])
  /\ now = 1
  /\ user = DefaultUsers[1]
  /\ searchResults = << >>
  /\ cart = << >>
  /\ showCheckout = FALSE
  /\ paymentMethod = "cash"
  /\ amountPaid = NoText
  /\ lastSale = Null
  /\ showReceiptDialog = FALSE
  /\ reportData = Null
  /\ download = Null
  /\ last = [op |-> "init"]

NextStock ==
  \/ Repo_updateStock
  \/ Repo_getLowStockAlerts
  \/ Products_handleSubmit_edit
  \/ Products_toggleProductStatus

SpecStock == InitStock /\ [][NextStock]_vars

(***************************************************************************)
(* Claims about the checkout (SpecPOS).                                    *)
(***************************************************************************)
\* the sum of the quantities of the first n line items for a product
RECURSIVE quantityOf(_, _, _)
quantityOf(items, n, productId) ==
  IF n = 0 THEN 0
  ELSE quantityOf(items, n - 1, productId)
         + (IF items[n].productId = productId THEN items[n].quantity ELSE 0)

\* a step of processSale that handed the cart to salesStorage.add
SaleStep == last'.op = "processSale" /\ last'.ret # Null

\* C2: recording a sale is all-or-nothing with respect to stock: when a
\* line item's quantity exceeds the available stock of its product, no
\* sale is appended to the ledger and no product's stock changes.
C2_SaleAllOrNothing ==
  [][(SaleStep /\ \E i \in 1..Len(cart) :
                    cart[i].quantity > stockOf(pos_products, cart[i].productId))
       => (pos_sales' = pos_sales /\ pos_products' = pos_products)]_vars

\* C4: a recorded sale consumes inventory exactly: every call of
\* salesStorage.add lowers the stock of every product by the sum of the
\* quantities of the sale's line items for that product (so that, over a
\* sequence of such calls, initial stock minus current stock is the sum
\* over the ledger).
C4_SaleConsumesInventory ==
  [][SaleStep =>
       /\ salesStorage_getAll(pos_sales') =
            Append(salesStorage_getAll(pos_sales), JSON_sale(last'.ret))
       /\ Len(productStorage_getAll(pos_products'))
            = Len(productStorage_getAll(pos_products))
       /\ \A k \in 1..Len(productStorage_getAll(pos_products)) :
            productStorage_getAll(pos_products)[k].stock
              - productStorage_getAll(pos_products')[k].stock
            = quantityOf(cart, Len(cart),
                         productStorage_getAll(pos_products)[k].id)]_vars

\* C5: every sale recorded through the checkout has
\* total = subtotal + tax - discount, subtotal = the sum of its items'
\* totals, and every item's total = price * quantity.
C5_SaleArithmetic ==
  \A i \in 1..Len(salesStorage_getAll(pos_sales)) :
    LET sale == salesStorage_getAll(pos_sales)[i]
    IN  /\ sale.total = FSub(FAdd(sale.subtotal, sale.tax), sale.discount)
        /\ sale.subtotal = sumTotals(sale.items, Len(sale.items))
        /\ \A j \in 1..Len(sale.items) :
             sale.items[j].total
               = FMul(sale.items[j].price, Num(sale.items[j].quantity))

\* a recorded sale of two lines, one of them with its quantity raised
C5_Witness ==
  \E i \in 1..Len(salesStorage_getAll(pos_sales)) :
    LET sale == salesStorage_getAll(pos_sales)[i]
    IN  /\ Len(sale.items) = 2
        /\ \E j \in 1..2 : sale.items[j].quantity = 2
        /\ sale.tax # Num(0)

(***************************************************************************)
(* Claims about the product repository (SpecStock, SpecCatalog).           *)
(***************************************************************************)
\* a call of productStorage.updateStock for a stored product
UpdateStockStep ==
  /\ last'.op = "updateStock"
  /\ findIndex(productStorage_getAll(pos_products), last'.id) # 0

\* C1: productStorage.updateStock(P.id, q, direction) never makes the stock
\* of P negative: when the computed new stock is negative the call returns
\* false and the stored products are unchanged (stock and updatedAt of P
\* included); otherwise it returns true and the stock of P is the computed
\* value.
C1_UpdateStockContract ==
  [][UpdateStockStep =>
       LET index    == findIndex(productStorage_getAll(pos_products), last'.id)
           P        == productStorage_getAll(pos_products)[index]
           computed == IF last'.operation = "add"
                       THEN P.stock + last'.quantity
                       ELSE P.stock - last'.quantity
       IN  /\ computed < 0 =>
                /\ last'.ret = FALSE
                /\ pos_products' = pos_products
           /\ computed >= 0 =>
                /\ last'.ret = TRUE
                /\ productStorage_getAll(pos_products')[index].stock = computed
           /\ P.stock >= 0 =>
                productStorage_getAll(pos_products')[index].stock >= 0]_vars

\* a rejected call for a stored product, which keeps its stock and its
\* time of update
C1_Witness ==
  /\ last.op = "updateStock"
  /\ last.ret = FALSE
  /\ last.operation = "subtract"
  /\ LET index == findIndex(productStorage_getAll(pos_products), last.id)
     IN  /\ index # 0
         /\ productStorage_getAll(pos_products)[index].stock
              < last.quantity
         /\ productStorage_getAll(pos_products)[index].stock >= 0
         /\ productStorage_getAll(pos_products)[index].updatedAt # now

\* C3: in every reachable state every stored product has stock >= 0.
C3_StockNonNegative ==
  \A i \in 1..Len(productStorage_getAll(pos_products)) :
    productStorage_getAll(pos_products)[i].stock >= 0

(***************************************************************************)
(* User repository and data manager (export and import of a backup).       *)
(***************************************************************************)
userStorage_getAll(item) == IF storage_getsNull(item) THEN << >> ELSE storage_get(item)

userStorage_save(users) == storage_set(users)

\* a member of a JSON object that is not null (null is Null)
member(value) == [value |-> value]

\* the text of the file written by exportData
dataManager_exportData(usersItem, productsItem, salesItem, settingsItem, t) ==
  JSON_stringify([users |-> member(userStorage_getAll(usersItem)),
                  products |-> member(productStorage_getAll(productsItem)),
                  sales |-> member(salesStorage_getAll(salesItem)),
                  settings |-> member(settingsStorage_get(settingsItem)),
                  exportDate |-> member(toISOString(t))])

\* if (data.key): the key is there and its value is not null
truthy(data, key) == key \in DOMAIN data /\ data[key] # Null

\* importData reading the keys of the document with data?.key
importData_alwaysTrue(file, usersItem, productsItem, salesItem, settingsItem) ==
  LET data == JSON_parse(file)
      kept == [users |-> usersItem, products |-> productsItem,
               sales |-> salesItem, settings |-> settingsItem]
  IN  IF ~parses(file) THEN [ret |-> FALSE] @@ kept
      ELSE IF data = Null THEN [ret |-> TRUE] @@ kept
      ELSE [ret |-> TRUE,
            users |-> IF truthy(data, "users")
                      THEN userStorage_save(data.users.value) ELSE usersItem,
            products |-> IF truthy(data, "products")
                         THEN productStorage_save(data.products.value)
                         ELSE productsItem,
            sales |-> IF truthy(data, "sales")
                      THEN salesStorage_save(data.sales.value) ELSE salesItem,
            settings |-> IF truthy(data, "settings")
                         THEN settingsStorage_save(data.settings.value)
                         ELSE settingsItem]

\* importData taking an empty collection for a missing one
importData_skipEmpty(file, usersItem, productsItem, salesItem, settingsItem) ==
  LET data == JSON_parse(file)
      kept == [users |-> usersItem, products |-> productsItem,
               sales |-> salesItem, settings |-> settingsItem]
  IN  IF ~parses(file) THEN [ret |-> FALSE] @@ kept
      ELSE IF data = Null THEN [ret |-> FALSE] @@ kept
      ELSE [ret |-> TRUE,
            users |-> IF truthy(data, "users") /\ data.users.value # << >>
                      THEN userStorage_save(data.users.value) ELSE usersItem,
            products |-> IF truthy(data, "products") /\ data.products.value # << >>
                         THEN productStorage_save(data.products.value)
                         ELSE productsItem,
            sales |-> IF truthy(data, "sales") /\ data.sales.value # << >>
                      THEN salesStorage_save(data.sales.value) ELSE salesItem,
            settings |-> IF truthy(data, "settings")
                         THEN settingsStorage_save(data.settings.value)
                         ELSE settingsItem]

\* importData saving the products of the document as the sales
importData_swapped(file, usersItem, productsItem, salesItem, settingsItem) ==
  LET data == JSON_parse(file)
      kept == [users |-> usersItem, products |-> productsItem,
               sales |-> salesItem, settings |-> settingsItem]
  IN  IF ~parses(file) THEN [ret |-> FALSE] @@ kept
      ELSE IF data = Null THEN [ret |-> FALSE] @@ kept
      ELSE [ret |-> TRUE,
            users |-> IF truthy(data, "users")
                      THEN userStorage_save(data.users.value) ELSE usersItem,
            products |-> IF truthy(data, "products")
                         THEN productStorage_save(data.products.value)
                         ELSE productsItem,
            sales |-> IF truthy(data, "products")
                      THEN salesStorage_save(data.products.value)
                      ELSE salesItem,
            settings |-> IF truthy(data, "settings")
                         THEN settingsStorage_save(data.settings.value)
                         ELSE settingsItem]

\* reader.onload of importData: what the promise resolves to and the items
\* stored afterwards.  Reading a property of null throws, which the catch
\* turns into false like a syntax error; storage.set never throws.
dataManager_importData(file, usersItem, productsItem, salesItem, settingsItem) ==
  LET data == JSON_parse(file)
      kept == [users |-> usersItem, products |-> productsItem,
               sales |-> salesItem, settings |-> settingsItem]
  IN  IF ~parses(file) THEN [ret |-> FALSE] @@ kept
      ELSE IF data = Null THEN [ret |-> FALSE] @@ kept
      ELSE [ret |-> TRUE,
            users |-> IF truthy(data, "users")
                      THEN userStorage_save(data.users.value) ELSE usersItem,
            products |-> IF truthy(data, "products")
                         THEN productStorage_save(data.products.value)
                         ELSE productsItem,
            sales |-> IF truthy(data, "sales")
                      THEN salesStorage_save(data.sales.value) ELSE salesItem,
            settings |-> IF truthy(data, "settings")
                         THEN settingsStorage_save(data.settings.value)
                         ELSE settingsItem]

(***************************************************************************)
(* Settings page: the Export Data and Import Data buttons.                 *)
(***************************************************************************)
\* the settings saved by the Settings page after the store name was typed
SavedSettings ==
  [storeName |-> "Tindahan", storeAddress |-> "123 Main Street",
   storePhone |-> "+63 123 456 7890", storeEmail |-> "",
   taxRate |-> DefaultTaxRate, currency |-> "PHP",
   receiptFooter |-> "Thank you for your purchase!"]

\* the ledger after the cashier sold one pack of the first sample product
SampleLedger ==
  salesStorage_add(
    Null, storage_set(SampleProducts(1, 1)),
    draftSale(addToCart(<< >>, SampleProducts(1, 1)[1], Undefined), Null,
              "card", NoText, DefaultUsers[2]),
    0, 0)

\* the values a backup document gives to a key: null or a value
KeyValues(key) ==
  CASE key = "users" -> {Null, member(SubSeq(DefaultUsers, 1, 1))}
    [] key = "products" -> {member(<< >>)}
    [] key = "sales" -> {member(<< >>)}
    [] key = "settings" ->
         {Null, member([DefaultSettings EXCEPT !.currency = "USD"])}

\* a key that a document does not have
Absent == [absent |-> TRUE]

\* the JSON object with the keys that are not Absent
document(users, products, sales, settings) ==
  LET Keys == {key \in {"users", "products", "sales", "settings"} :
                 CASE key = "users" -> users # Absent
                   [] key = "products" -> products # Absent
                   [] key = "sales" -> sales # Absent
                   [] key = "settings" -> settings # Absent}
  IN  [key \in Keys |->
         CASE key = "users" -> users
           [] key = "products" -> products
           [] key = "sales" -> sales
           [] key = "settings" -> settings]

\* the JSON objects with some of the keys of a backup
Documents ==
  {document(users, products, sales, settings) :
     users \in KeyValues("users") \cup {Absent},
     products \in KeyValues("products") \cup {Absent},
     sales \in KeyValues("sales") \cup {Absent},
     settings \in KeyValues("settings") \cup {Absent}}

\* the files the administrator picks: one that is not JSON, the JSON text
\* null, a JSON object, or the backup downloaded last
Files ==
  {SyntaxErrorFile, JSON_stringify(Null)}
    \cup {JSON_stringify(data) : data \in Documents}
    \cup (IF download = Null THEN {} ELSE {download})

backupUnchanged ==
  UNCHANGED <<pos_current_user, now, user, posVars, reportData>>

Settings_handleExportData ==
  /\ download' = dataManager_exportData(pos_users, pos_products, pos_sales,
                                        pos_settings, now)
  /\ last' = [op |-> "exportData"]
  /\ UNCHANGED <<pos_users, pos_products, pos_sales, pos_settings>>
  /\ backupUnchanged

Settings_handleImportData ==
  /\ \E file \in Files :
       LET res == dataManager_importData(file, pos_users, pos_products,
                                         pos_sales, pos_settings)
       IN  /\ pos_users' = res.users
           /\ pos_products' = res.products
           /\ pos_sales' = res.sales
           /\ pos_settings' = res.settings
           /\ last' = [op |-> "importData", file |-> file, ret |-> res.ret]
  /\ UNCHANGED download
  /\ backupUnchanged

Repo_settingsGet ==
  /\ last' = [op |-> "settingsStorage.get",
              ret |-> settingsStorage_get(pos_settings)]
  /\ UNCHANGED <<pos_users, pos_products, pos_sales, pos_settings, download>>
  /\ backupUnchanged

\* the Settings page of the administrator, with or without a sale in the
\* ledger and with or without saved settings
InitBackup ==
  /\ pos_users = storage_set(DefaultUsers)
  /\ \E sold \in BOOLEAN :
       /\ pos_products = IF sold THEN SampleLedger.products
                         ELSE storage_set(SampleProducts(1, 1))
       /\ pos_sales = IF sold THEN SampleLedger.sales ELSE Null
  /\ pos_settings \in {Null, settingsStorage_save(SavedSettings)}
  /\ pos_current_user = storage_set(DefaultUsers[1])
  /\ now = 1
  /\ user = DefaultUsers[1]
  /\ searchResults = << >>
  /\ cart = << >>
  /\ showCheckout = FALSE
  /\ paymentMethod = "cash"
  /\ amountPaid = NoText
  /\ lastSale = Null
  /\ showReceiptDialog = FALSE
  /\ reportData = Null
  /\ download = Null
  /\ last = [op |-> "init"]

NextBackup ==
  \/ Settings_handleExportData
  \/ Settings_handleImportData
  \/ Repo_settingsGet

SpecBackup == InitBackup /\ [][NextBackup]_vars

(***************************************************************************)
(* Claims about export and import (SpecBackup).                            *)
(***************************************************************************)
ImportStep == last'.op = "importData"

\* an import of a file whose text is a JSON object
ImportObjectStep ==
  /\ ImportStep
  /\ parses(last'.file)
  /\ JSON_parse(last'.file) # Null

\* an import of the backup that exportData makes of the present state
RoundTripStep ==
  /\ ImportStep
  /\ last'.file = download
  /\ \E t \in 0..MaxClock :
       download = dataManager_exportData(pos_users, pos_products, pos_sales,
                                         pos_settings, t)

\* C6: export followed by import of the exported document is a round trip:
\* the users, products and sales collections and the value returned by
\* settingsStorage.get() are those before the export.
C6_RoundTrip ==
  [][RoundTripStep =>
       /\ userStorage_getAll(pos_users') = userStorage_getAll(pos_users)
       /\ productStorage_getAll(pos_products')
            = productStorage_getAll(pos_products)
       /\ salesStorage_getAll(pos_sales') = salesStorage_getAll(pos_sales)
       /\ settingsStorage_get(pos_settings')
            = settingsStorage_get(pos_settings)]_vars

\* the state after a round trip that started without settings: the backup
\* imported last is the export of the present state, which has a sale and
\* the default settings now stored
C6_Witness ==
  /\ last.op = "importData"
  /\ last.file = download
  /\ download = dataManager_exportData(pos_users, pos_products, pos_sales,
                                       Null, now)
  /\ pos_settings = settingsStorage_save(DefaultSettings)
  /\ Len(salesStorage_getAll(pos_sales)) = 1
  /\ Len(productStorage_getAll(pos_products)) = 2

\* the item stored for a key
stored(key, usersItem, productsItem, salesItem, settingsItem) ==
  CASE key = "users" -> usersItem
    [] key = "products" -> productsItem
    [] key = "sales" -> salesItem
    [] key = "settings" -> settingsItem

StoreKeys == {"users", "products", "sales", "settings"}

\* C7 as stated: importData overwrites exactly the repositories whose key
\* is present in the document: an absent key leaves the stored value
\* unchanged, a present key makes the stored value the document's value.
C7_OverwritesPresentKeys ==
  [][ImportObjectStep =>
       \A key \in StoreKeys :
         LET data   == JSON_parse(last'.file)
             before == stored(key, pos_users, pos_products, pos_sales,
                              pos_settings)
             after  == stored(key, pos_users', pos_products', pos_sales',
                              pos_settings')
         IN  IF key \in DOMAIN data
             THEN after = JSON_stringify(IF data[key] = Null THEN Null
                                         ELSE data[key].value)
             ELSE after = before]_vars

\* C7 amended: importData overwrites exactly the repositories whose key is
\* present in the document with a value that is not null: such a key makes
\* the stored value the document's value, any other key leaves the stored
\* value unchanged.
C7_OverwritesTruthyKeys ==
  [][ImportObjectStep =>
       \A key \in StoreKeys :
         LET data   == JSON_parse(last'.file)
             before == stored(key, pos_users, pos_products, pos_sales,
                              pos_settings)
             after  == stored(key, pos_users', pos_products', pos_sales',
                              pos_settings')
         IN  IF key \in DOMAIN data /\ data[key] # Null
             THEN after = JSON_stringify(data[key].value)
             ELSE after = before]_vars

\* the state after the import of a document with users, with an empty
\* products collection, with settings null and without sales: one user and
\* no product are stored, the sale and the saved settings are kept
C7_Witness ==
  /\ last.op = "importData"
  /\ parses(last.file)
  /\ JSON_parse(last.file) # Null
  /\ DOMAIN JSON_parse(last.file) = {"users", "products", "settings"}
  /\ JSON_parse(last.file).settings = Null
  /\ JSON_parse(last.file).users # Null
  /\ Len(userStorage_getAll(pos_users)) = 1
  /\ pos_products = JSON_stringify(<< >>)
  /\ Len(salesStorage_getAll(pos_sales)) = 1
  /\ pos_settings = settingsStorage_save(SavedSettings)

\* C8 as stated: importData resolves false if the document fails to parse
\* and true otherwise; when it resolves false nothing has been written.
C8_FalseIffParseFails ==
  [][ImportStep =>
       /\ last'.ret = parses(last'.file)
       /\ ~last'.ret => storeVars' = storeVars]_vars

\* C8 amended: importData resolves false if the document fails to parse or
\* is the JSON text null, and true otherwise; when it resolves false
\* nothing has been written.
C8_FalseIffUnreadable ==
  [][ImportStep =>
       /\ last'.ret = (parses(last'.file) /\ JSON_parse(last'.file) # Null)
       /\ ~last'.ret => storeVars' = storeVars]_vars

\* the state after the import of a file that is not JSON resolved false,
\* with a sale and saved settings in the store
C8_Witness ==
  /\ last.op = "importData"
  /\ last.file = SyntaxErrorFile
  /\ last.ret = FALSE
  /\ pos_sales # Null
  /\ pos_settings # Null

(***************************************************************************)
(* Reports: salesStorage.getByDateRange, getDailySummary and               *)
(* generateReport of the Reports page.                                     *)
(***************************************************************************)
getByDateRange_exclusiveEnd(item, startDate, endDate) ==
  LET inRange(s) == s.date >= startDate /\ s.date < endDate
  IN  SelectSeq(salesStorage_getAll(item), inRange)

salesStorage_getByDateRange(item, startDate, endDate) ==
  LET inRange(s) == s.date >= startDate /\ s.date <= endDate
  IN  SelectSeq(salesStorage_getAll(item), inRange)

\* items.reduce((sum, item) => sum + item.quantity, 0) over the first n
RECURSIVE reduceQuantity(_, _)
reduceQuantity(items, n) ==
  IF n = 0 THEN 0 ELSE reduceQuantity(items, n - 1) + items[n].quantity

itemCount(sale) == reduceQuantity(sale.items, Len(sale.items))

\* sales.reduce((sum, sale) => sum + sale.total, 0) over the first n
RECURSIVE reduceTotal(_, _)
reduceTotal(sales, n) ==
  IF n = 0 THEN Num(0) ELSE FAdd(reduceTotal(sales, n - 1), sales[n].total)

\* the reduce of totalItems
RECURSIVE reduceItems_carried(_, _)
reduceItems_carried(sales, n) ==
  IF n = 0 THEN (IF reportData = Null THEN 0 ELSE reportData.totalItems)
  ELSE reduceItems_carried(sales, n - 1) + itemCount(sales[n])

RECURSIVE reduceItems(_, _)
reduceItems(sales, n) ==
  IF n = 0 THEN 0 ELSE reduceItems(sales, n - 1) + itemCount(sales[n])

\* the average as the quotient of the total by the number of line items
averageOf_byItems(sales) ==
  IF Len(sales) > 0 /\ reduceItems(sales, Len(sales)) > 0
  THEN FDiv(reduceTotal(sales, Len(sales)), reduceItems(sales, Len(sales)))
  ELSE Num(0)

\* totalTransactions > 0 ? totalSales / totalTransactions : 0
averageOf(sales) ==
  IF Len(sales) > 0 THEN FDiv(reduceTotal(sales, Len(sales)), Len(sales))
  ELSE Num(0)

salesStorage_getDailySummary(item, date) ==
  LET isDate(s) == s.date = date
      sales     == SelectSeq(salesStorage_getAll(item), isDate)
  IN  [totalSales |-> reduceTotal(sales, Len(sales)),
       totalTransactions |-> Len(sales),
       totalItems |-> reduceItems(sales, Len(sales)),
       averageTransaction |-> averageOf(sales)]

\* Map.get: the position of the entry of a key in a map kept as the
\* sequence of its entries in insertion order (0 when there is none)
mapIndex(map, key) ==
  IF \E i \in 1..Len(map) : map[i].key = key
  THEN CHOOSE i \in 1..Len(map) : map[i].key = key
  ELSE 0

\* dailyData after the first n sales
RECURSIVE dailyData(_, _)
dailyData(sales, n) ==
  IF n = 0 THEN << >>
  ELSE LET map   == dailyData(sales, n - 1)
           sale  == sales[n]
           index == mapIndex(map, sale.date)
       IN  IF index # 0
           THEN [map EXCEPT ![index].sales = FAdd(@, sale.total),
                            ![index].transactions = @ + 1,
                            ![index].items = @ + itemCount(sale)]
           ELSE Append(map, [key |-> sale.date, sales |-> sale.total,
                             transactions |-> 1, items |-> itemCount(sale)])

\* paymentData after the first n sales
RECURSIVE paymentData(_, _)
paymentData(sales, n) ==
  IF n = 0 THEN << >>
  ELSE LET map   == paymentData(sales, n - 1)
           sale  == sales[n]
           index == mapIndex(map, sale.paymentMethod)
       IN  IF index # 0
           THEN [map EXCEPT ![index].count = @ + 1,
                            ![index].total = FAdd(@, sale.total)]
           ELSE Append(map, [key |-> sale.paymentMethod, count |-> 1,
                             total |-> sale.total])

\* productSales after the first j items of a sale, starting from a map
RECURSIVE productSalesOfItems(_, _, _, _)
productSalesOfItems(map, items, j, products) ==
  IF j = 0 THEN map
  ELSE LET before == productSalesOfItems(map, items, j - 1, products)
           item   == items[j]
           index  == mapIndex(before, item.productId)
           found  == findIndex(products, item.productId)
       IN  IF index # 0
           THEN [before EXCEPT ![index].quantity = @ + item.quantity,
                               ![index].revenue = FAdd(@, item.total)]
           ELSE Append(before,
                       [key |-> item.productId,
                        name |-> IF found # 0 THEN products[found].name
                                 ELSE item.name,
                        quantity |-> item.quantity, revenue |-> item.total])

\* productSales after the first n sales
RECURSIVE productSales(_, _, _)
productSales(sales, n, products) ==
  IF n = 0 THEN << >>
  ELSE productSalesOfItems(productSales(sales, n - 1, products),
                           sales[n].items, Len(sales[n].items), products)

\* Array.prototype.sort is a stable sort: the first n rows, each put after
\* the rows that the comparison does not put behind it
RECURSIVE sortByDate(_, _)
sortByDate(rows, n) ==
  IF n = 0 THEN << >>
  ELSE LET sorted == sortByDate(rows, n - 1)
           row    == rows[n]
           k      == Cardinality({i \in 1..Len(sorted) :
                                    sorted[i].date <= row.date})
       IN  SubSeq(sorted, 1, k) \o <<row>> \o SubSeq(sorted, k + 1, Len(sorted))

\* sort((a, b) => a.revenue - b.revenue)
RECURSIVE sortByRevenue_ascending(_, _)
sortByRevenue_ascending(rows, n) ==
  IF n = 0 THEN << >>
  ELSE LET sorted == sortByRevenue_ascending(rows, n - 1)
           row    == rows[n]
           k      == Cardinality({i \in 1..Len(sorted) :
                                    ~FLt(row.revenue, sorted[i].revenue)})
       IN  SubSeq(sorted, 1, k) \o <<row>> \o SubSeq(sorted, k + 1, Len(sorted))

\* sort((a, b) => b.revenue - a.revenue)
RECURSIVE sortByRevenue(_, _)
sortByRevenue(rows, n) ==
  IF n = 0 THEN << >>
  ELSE LET sorted == sortByRevenue(rows, n - 1)
           row    == rows[n]
           k      == Cardinality({i \in 1..Len(sorted) :
                                    ~FLt(sorted[i].revenue, row.revenue)})
       IN  SubSeq(sorted, 1, k) \o <<row>> \o SubSeq(sorted, k + 1, Len(sorted))

slice(rows, n) == SubSeq(rows, 1, Min(n, Len(rows)))

TopCount == 10

\* the report generateReport hands to setReportData
reportOf(salesItem, productsItem, start, end) ==
  LET sales    == salesStorage_getByDateRange(salesItem, start, end)
      products == productStorage_getAll(productsItem)
      top      == productSales(sales, Len(sales), products)
      daily    == dailyData(sales, Len(sales))
      payment  == paymentData(sales, Len(sales))
  IN  [totalSales |-> reduceTotal(sales, Len(sales)),
       totalTransactions |-> Len(sales),
       totalItems |-> reduceItems(sales, Len(sales)),
       averageTransaction |-> averageOf(sales),
       topProducts |->
         slice(sortByRevenue(
                 [i \in 1..Len(top) |->
                    [productId |-> top[i].key, productName |-> top[i].name,
                     quantity |-> top[i].quantity,
                     revenue |-> top[i].revenue]],
                 Len(top)),
               TopCount),
       dailyBreakdown |->
         sortByDate([i \in 1..Len(daily) |->
                       [date |-> daily[i].key, sales |-> daily[i].sales,
                        transactions |-> daily[i].transactions,
                        items |-> daily[i].items]],
                    Len(daily)),
       paymentMethods |->
         [i \in 1..Len(payment) |->
            [method |-> payment[i].key, count |-> payment[i].count,
             total |-> payment[i].total]]]

\* getDateRange: the dates of a period, with today the date of the clock
getDateRange(reportPeriod, startDate, endDate, t) ==
  CASE reportPeriod = "today" -> [start |-> toString(ISODate(t)),
                                  end |-> toString(ISODate(t))]
    [] reportPeriod = "week" -> [start |-> toString(ISODate(t) - 7),
                                 end |-> toString(ISODate(t))]
    [] reportPeriod = "month" -> [start |-> toString(ISODate(t) - 30),
                                  end |-> toString(ISODate(t))]
    [] reportPeriod = "custom" -> [start |-> startDate, end |-> endDate]

(***************************************************************************)
(* Reports page and the ledgers it reports on.                             *)
(***************************************************************************)
MaxLedger == 3       \* sales in the ledger of the Reports page

\* the carts checked out: one pack of crackers, two packs of noodles, one
\* of each
SampleCarts ==
  {addToCart(<< >>, SampleProducts(MaxStock, MaxStock)[2], Undefined),
   updateCartQuantity(
     addToCart(<< >>, SampleProducts(MaxStock, MaxStock)[1], Undefined),
     SampleProducts(MaxStock, MaxStock)[1].id, 2, Undefined),
   addToCart(addToCart(<< >>, SampleProducts(MaxStock, MaxStock)[1],
                       Undefined),
             SampleProducts(MaxStock, MaxStock)[2], Undefined)}

\* the checkouts of a day's work: for each sale its cart, the clock and the
\* random number of its identifier, in the order of the clock
Checkouts(n) ==
  {c \in [1..n -> [items : SampleCarts, t : 0..MaxClock, r : Rand]] :
     \A i \in 1..(n - 1) :
       \/ c[i].t < c[i + 1].t
       \/ c[i].t = c[i + 1].t /\ c[i].r < c[i + 1].r}

\* the products and the sales stored after the first n checkouts, each
\* paid by card and recorded by salesStorage.add
RECURSIVE storeAfter(_, _)
storeAfter(checkouts, n) ==
  IF n = 0
  THEN [products |-> storage_set(SampleProducts(MaxStock, MaxStock)),
        sales |-> Null]
  ELSE LET before == storeAfter(checkouts, n - 1)
           res    == salesStorage_add(
                       before.sales, before.products,
                       draftSale(checkouts[n].items, Null, "card", NoText,
                                 DefaultUsers[2]),
                       checkouts[n].t, checkouts[n].r)
       IN  [products |-> res.products, sales |-> res.sales]

reportsUnchanged ==
  UNCHANGED <<storeVars, user, posVars, download>>

\* the clock of the Reports page, which never runs behind the last sale
Reports_tick ==
  /\ now < MaxClock
  /\ now' = now + 1
  /\ last' = [op |-> "tick"]
  /\ UNCHANGED reportData
  /\ reportsUnchanged

ReportPeriods == {"today", "week", "month", "custom"}

\* the texts of the date inputs
DateTexts == {NoText} \cup {toString(d) : d \in 0..ISODate(MaxClock)}

\* generateReport, for the period and the dates chosen on the page
Reports_generateReport ==
  /\ \E reportPeriod \in ReportPeriods, startDate, endDate \in DateTexts :
       LET range == getDateRange(reportPeriod, startDate, endDate, now)
       IN  /\ reportPeriod # "custom" => startDate = NoText /\ endDate = NoText
           /\ IF reportPeriod = "custom"
                   /\ (range.start = NoText \/ range.end = NoText)
              THEN /\ UNCHANGED reportData
                   /\ last' = [op |-> "generateReport", ret |-> FALSE]
              ELSE /\ reportData' = reportOf(pos_sales, pos_products,
                                             range.start[1], range.end[1])
                   /\ last' = [op |-> "generateReport", ret |-> TRUE,
                               start |-> range.start[1],
                               end |-> range.end[1]]
  /\ UNCHANGED now
  /\ reportsUnchanged

\* salesStorage.getDailySummary called for a date
Repo_getDailySummary ==
  /\ \E date \in 0..ISODate(MaxClock) :
       last' = [op |-> "getDailySummary", date |-> date,
                ret |-> salesStorage_getDailySummary(pos_sales, date)]
  /\ UNCHANGED <<now, reportData>>
  /\ reportsUnchanged

\* the Reports page of the administrator after up to MaxLedger checkouts
InitReports ==
  /\ pos_users = storage_set(DefaultUsers)
  /\ \E n \in 0..MaxLedger : \E checkouts \in Checkouts(n) :
       /\ pos_products = storeAfter(checkouts, n).products
       /\ pos_sales = storeAfter(checkouts, n).sales
       /\ now = IF n = 0 THEN 0 ELSE checkouts[n].t
  /\ pos_settings = Null
  /\ pos_current_user = storage_set(DefaultUsers[1])
  /\ user = DefaultUsers[1]
  /\ searchResults = << >>
  /\ cart = << >>
  /\ showCheckout = FALSE
  /\ paymentMethod = "cash"
  /\ amountPaid = NoText
  /\ lastSale = Null
  /\ showReceiptDialog = FALSE
  /\ reportData = Null
  /\ download = Null
  /\ last = [op |-> "init"]

NextReports ==
  \/ Reports_tick
  \/ Reports_generateReport
  \/ Repo_getDailySummary

SpecReports == InitReports /\ [][NextReports]_vars

(***************************************************************************)
(* Claims about the reports (SpecReports).                                 *)
(***************************************************************************)
\* the sum of the sales of the rows from i on, added to acc
RECURSIVE sumOfSales(_, _, _)
sumOfSales(rows, i, acc) ==
  IF i > Len(rows) THEN acc
  ELSE sumOfSales(rows, i + 1, FAdd(acc, rows[i].sales))

RECURSIVE sumOfTransactions(_, _, _)
sumOfTransactions(rows, i, acc) ==
  IF i > Len(rows) THEN acc
  ELSE sumOfTransactions(rows, i + 1, acc + rows[i].transactions)

\* C9: the daily breakdown of a report reconciles with its totals: the sum
\* of the rows' sales is totalSales, the sum of the rows' transactions is
\* totalTransactions, no date has two rows and the rows are in ascending
\* order of date.
C9_BreakdownReconciles ==
  reportData # Null =>
    LET rows == reportData.dailyBreakdown
    IN  /\ sumOfSales(rows, 1, Num(0)) = reportData.totalSales
        /\ sumOfTransactions(rows, 1, 0) = reportData.totalTransactions
        /\ \A i, j \in 1..Len(rows) : i < j => rows[i].date < rows[j].date

\* the sales of the ledger dated from start to end, in the order of the
\* ledger
selected(start, end) ==
  LET ledger == salesStorage_getAll(pos_sales)
      picked(i) == ledger[i].date >= start /\ ledger[i].date <= end
      RECURSIVE from(_)
      from(i) == IF i > Len(ledger) THEN << >>
                 ELSE IF picked(i) THEN <<ledger[i]>> \o from(i + 1)
                 ELSE from(i + 1)
  IN  from(1)

\* the sum of the totals of the sales from i on, added to acc
RECURSIVE sumOfTotals(_, _, _)
sumOfTotals(sales, i, acc) ==
  IF i > Len(sales) THEN acc
  ELSE sumOfTotals(sales, i + 1, FAdd(acc, sales[i].total))

\* the number of units sold by the sales from i on, added to acc
RECURSIVE sumOfQuantities(_, _, _)
sumOfQuantities(sales, i, acc) ==
  IF i > Len(sales) THEN acc
  ELSE LET items == sales[i].items
           units == IF Len(items) = 0 THEN 0
                    ELSE IF Len(items) = 1 THEN items[1].quantity
                    ELSE items[1].quantity + items[2].quantity
       IN  sumOfQuantities(sales, i + 1, acc + units)

\* the four totals of a sequence of sales
totalsOf(sales) ==
  [totalSales |-> sumOfTotals(sales, 1, Num(0)),
   totalTransactions |-> Len(sales),
   totalItems |-> sumOfQuantities(sales, 1, 0),
   averageTransaction |->
     IF Len(sales) = 0 THEN Num(0)
     ELSE FDiv(sumOfTotals(sales, 1, Num(0)), Len(sales))]

\* C10: for a report over [start, end], totalSales is the sum of the totals
\* of the selected sales (added in the order of the ledger),
\* totalTransactions their number, totalItems the sum of the quantities of
\* their line items and averageTransaction totalSales / totalTransactions,
\* or 0 when no sale is selected; getDailySummary gives the same four
\* totals for the sales of a date.
C10_ReportTotals ==
  /\ (last.op = "generateReport" /\ last.ret) =>
       LET totals == totalsOf(selected(last.start, last.end))
       IN  /\ reportData.totalSales = totals.totalSales
           /\ reportData.totalTransactions = totals.totalTransactions
           /\ reportData.totalItems = totals.totalItems
           /\ reportData.averageTransaction = totals.averageTransaction
  /\ last.op = "getDailySummary" =>
       last.ret = totalsOf(selected(last.date, last.date))

\* a report on the last day of a ledger of three sales selects the two
\* sales of that day, which sold three units
C10_Witness ==
  /\ last.op = "generateReport"
  /\ last.ret
  /\ last.start = last.end
  /\ Len(salesStorage_getAll(pos_sales)) = 3
  /\ reportData.totalTransactions = 2
  /\ reportData.totalItems = 3
  /\ reportData.averageTransaction # reportData.totalSales

(***************************************************************************)
(* Reports page over a ledger whose products were repriced, renamed or     *)
(* deleted afterwards (SpecTopProducts).                                   *)
(***************************************************************************)
\* the sample products after the administrator set the price of the
\* crackers to that of the noodles
RepricedProducts ==
  productStorage_getAll(
    productStorage_update(storage_set(SampleProducts(MaxStock, MaxStock)),
                          SampleProducts(MaxStock, MaxStock)[2].id,
                          [price |-> Price15], 0).item)

\* the carts checked out: one pack of noodles, one pack of crackers, one of
\* each
RepricedCarts ==
  {addToCart(<< >>, RepricedProducts[1], Undefined),
   addToCart(<< >>, RepricedProducts[2], Undefined),
   addToCart(addToCart(<< >>, RepricedProducts[1], Undefined),
             RepricedProducts[2], Undefined)}

\* n checkouts of such carts, one after the other: MaxRand + 1 of them at
\* every reading of the clock
RepricedCheckouts(n) ==
  {c \in [1..n -> [items : RepricedCarts, t : 0..MaxClock, r : Rand]] :
     \A i \in 1..n : /\ c[i].t = (i - 1) \div (MaxRand + 1)
                     /\ c[i].r = (i - 1) % (MaxRand + 1)}

\* the products and the sales stored after the first n of these checkouts
RECURSIVE repricedStoreAfter(_, _)
repricedStoreAfter(checkouts, n) ==
  IF n = 0
  THEN [products |-> storage_set(RepricedProducts), sales |-> Null]
  ELSE LET before == repricedStoreAfter(checkouts, n - 1)
           res    == salesStorage_add(
                       before.sales, before.products,
                       draftSale(checkouts[n].items, Null, "card", NoText,
                                 DefaultUsers[2]),
                       checkouts[n].t, checkouts[n].r)
       IN  [products |-> res.products, sales |-> res.sales]

\* the Reports page after up to MaxLedger such checkouts, the noodles
\* renamed afterwards or not
InitTopProducts ==
  /\ pos_users = storage_set(DefaultUsers)
  /\ \E n \in 0..Min(MaxLedger, (MaxClock + 1) * (MaxRand + 1)) :
       \E checkouts \in RepricedCheckouts(n), renamed \in BOOLEAN :
         /\ pos_products =
              IF renamed
              THEN productStorage_update(
                     repricedStoreAfter(checkouts, n).products,
                     RepricedProducts[1].id, [name |-> "Lucky Me Beef"],
                     MaxClock).item
              ELSE repricedStoreAfter(checkouts, n).products
         /\ pos_sales = repricedStoreAfter(checkouts, n).sales
  /\ now = MaxClock
  /\ pos_settings = Null
  /\ pos_current_user = storage_set(DefaultUsers[1])
  /\ user = DefaultUsers[1]
  /\ searchResults = << >>
  /\ cart = << >>
  /\ showCheckout = FALSE
  /\ paymentMethod = "cash"
  /\ amountPaid = NoText
  /\ lastSale = Null
  /\ showReceiptDialog = FALSE
  /\ reportData = Null
  /\ download = Null
  /\ last = [op |-> "init"]

NextTopProducts ==
  \/ Reports_generateReport
  \/ Products_handleDeleteProduct

SpecTopProducts == InitTopProducts /\ [][NextTopProducts]_vars

(***************************************************************************)
(* Claims about the top products (SpecTopProducts).                        *)
(***************************************************************************)
\* the line items of the sales from i on, in the order of the ledger
RECURSIVE lineItems(_, _)
lineItems(sales, i) ==
  IF i > Len(sales) THEN << >>
  ELSE sales[i].items \o lineItems(sales, i + 1)

\* the sums of the quantities and of the totals of the line items of a
\* product from i on, added to acc
RECURSIVE unitsOf(_, _, _, _)
unitsOf(items, productId, i, acc) ==
  IF i > Len(items) THEN acc
  ELSE unitsOf(items, productId, i + 1,
               IF items[i].productId = productId
               THEN acc + items[i].quantity ELSE acc)

\* the first total is taken as it is, the others are added to it
RECURSIVE revenueOf(_, _, _, _)
revenueOf(items, productId, i, acc) ==
  IF i > Len(items) THEN acc[1]
  ELSE revenueOf(items, productId, i + 1,
                 IF items[i].productId # productId THEN acc
                 ELSE IF acc = << >> THEN <<items[i].total>>
                 ELSE <<FAdd(acc[1], items[i].total)>>)

\* the place of the first line item of a product
firstLine(items, productId) ==
  CHOOSE i \in 1..Len(items) :
    /\ items[i].productId = productId
    /\ \A j \in 1..(i - 1) : items[j].productId # productId

userStorage_add(item, fields, t, r) ==
  LET users   == userStorage_getAll(item)
      newUser == [f \in DOMAIN fields \cup {"id", "createdAt"} |->
                    IF f = "id" THEN generateId(t, r)
                    ELSE IF f = "createdAt" THEN toISOString(t)
                    ELSE fields[f]]
  IN  [ret |-> newUser, item |-> userStorage_save(Append(users, newUser))]

\* updates is a record holding a subset of the fields of a user
userStorage_update(item, id, updates) ==
  LET users  == userStorage_getAll(item)
      index  == findIndex(users, id)
      merged == [f \in DOMAIN users[index] \cup DOMAIN updates |->
                   IF f \in DOMAIN updates THEN updates[f]
                   ELSE users[index][f]]
  IN  IF index = 0 THEN [ret |-> FALSE, item |-> item]
      ELSE [ret |-> TRUE,
            item |-> userStorage_save([users EXCEPT ![index] = merged])]

userStorage_delete_alwaysTrue(item, id) ==
  LET users    == userStorage_getAll(item)
      keep(u)  == u.id # id
      filtered == SelectSeq(users, keep)
  IN  [ret |-> TRUE, item |-> userStorage_save(filtered)]

userStorage_delete(item, id) ==
  LET users    == userStorage_getAll(item)
      keep(u)  == u.id # id
      filtered == SelectSeq(users, keep)
  IN  IF Len(filtered) = Len(users) THEN [ret |-> FALSE, item |-> item]
      ELSE [ret |-> TRUE, item |-> userStorage_save(filtered)]

\* find gives the first user passing the test, and || null gives null for none
findByCredentials_anyStatus(item, username, password) ==
  LET users    == userStorage_getAll(item)
      test(u)  == u.username = username /\ u.password = password
      matching == SelectSeq(users, test)
  IN  IF matching = << >> THEN Null ELSE matching[1]

userStorage_findByCredentials(item, username, password) ==
  LET users    == userStorage_getAll(item)
      test(u)  == /\ u.username = username
                  /\ u.password = password
                  /\ u.isActive
      matching == SelectSeq(users, test)
  IN  IF matching = << >> THEN Null ELSE matching[1]

\* the identifiers of the stored users, and one that no stored user holds
userIds(item) ==
  {userStorage_getAll(item)[i].id :
     i \in 1..Len(userStorage_getAll(item))} \cup {generateId(0, 9)}

UserUpdates == {[isActive |-> FALSE],
                [password |-> "letmein", role |-> "admin"]}

ProductUpdates == {[isActive |-> FALSE],
                   [name |-> "Lucky Me Beef", minStock |-> 0]}

Usernames == {"admin", "cashier", "Admin", "nobody"}

Passwords == {"admin123", "cashier123", "letmein"}

reposUnchanged ==
  UNCHANGED <<pos_sales, pos_settings, pos_current_user, now, user, posVars,
              reportData, download>>

Repo_userUpdate ==
  \E id \in userIds(pos_users), updates \in UserUpdates :
    LET result == userStorage_update(pos_users, id, updates)
    IN  /\ pos_users' = result.item
        /\ last' = [op |-> "userStorage.update", id |-> id,
                    updates |-> updates, ret |-> result.ret]
        /\ UNCHANGED pos_products
        /\ reposUnchanged

Repo_userDelete ==
  \E id \in userIds(pos_users) :
    LET result == userStorage_delete(pos_users, id)
    IN  /\ pos_users' = result.item
        /\ last' = [op |-> "userStorage.delete", id |-> id,
                    ret |-> result.ret]
        /\ UNCHANGED pos_products
        /\ reposUnchanged

Repo_findByCredentials ==
  \E username \in Usernames, password \in Passwords :
    /\ last' = [op |-> "findByCredentials", username |-> username,
                password |-> password,
                ret |-> userStorage_findByCredentials(pos_users, username,
                                                      password)]
    /\ UNCHANGED <<pos_users, pos_products>>
    /\ reposUnchanged

Repo_productUpdate ==
  \E id \in productIds(pos_products), updates \in ProductUpdates :
    LET result == productStorage_update(pos_products, id, updates, now)
    IN  /\ pos_products' = result.item
        /\ last' = [op |-> "productStorage.update", id |-> id,
                    updates |-> updates, ret |-> result.ret]
        /\ UNCHANGED pos_users
        /\ reposUnchanged

Repo_productDelete ==
  \E id \in productIds(pos_products) :
    LET result == productStorage_delete(pos_products, id)
    IN  /\ pos_products' = result.item
        /\ last' = [op |-> "productStorage.delete", id |-> id,
                    ret |-> result.ret]
        /\ UNCHANGED pos_users
        /\ reposUnchanged

InitRepos ==
  /\ pos_users = storage_set(DefaultUsers)
  /\ pos_products = storage_set(SampleProducts(1, 1))
  /\ pos_sales = Null
  /\ pos_settings = Null
  /\ pos_current_user = storage_set(DefaultUsers[1])
  /\ now = 1
  /\ user = DefaultUsers[1]
  /\ searchResults = << >>
  /\ cart = << >>
  /\ showCheckout = FALSE
  /\ paymentMethod = "cash"
  /\ amountPaid = NoText
  /\ lastSale = Null
  /\ showReceiptDialog = FALSE
  /\ reportData = Null
  /\ download = Null
  /\ last = [op |-> "init"]

NextRepos ==
  \/ Repo_userUpdate
  \/ Repo_userDelete
  \/ Repo_findByCredentials
  \/ Repo_productUpdate
  \/ Repo_productDelete

SpecRepos == InitRepos /\ [][NextRepos]_vars

\* C12: findByCredentials returns a stored user holding exactly the given
\* username and password and being active when there is one, and null in
\* every other case, so that an unknown username, a wrong password and an
\* inactive account are answered alike
C12_FindByCredentials ==
  LET users      == userStorage_getAll(pos_users)
      matches(u) == /\ u.username = last.username
                    /\ u.password = last.password
                    /\ u.isActive = TRUE
  IN  last.op = "findByCredentials" =>
        /\ (last.ret # Null) <=> (\E i \in 1..Len(users) : matches(users[i]))
        /\ last.ret # Null =>
             /\ \E i \in 1..Len(users) : users[i] = last.ret
             /\ matches(last.ret)

\* the right password of a deactivated account is answered with null
C12_Witness ==
  /\ last.op = "findByCredentials"
  /\ last.ret = Null
  /\ \E i \in 1..Len(userStorage_getAll(pos_users)) :
       LET u == userStorage_getAll(pos_users)[i]
       IN  /\ u.username = last.username
           /\ u.password = last.password
           /\ ~u.isActive

\* the positions of the records holding an identifier
positionsOf(records, id) == {i \in 1..Len(records) : records[i].id = id}

\* the first of a non-empty set of positions
firstOf(positions) == CHOOSE i \in positions : \A j \in positions : i <= j

\* update(id, updates) on a collection: false and nothing changed when no
\* record holds the identifier; otherwise true, same length, the records at
\* other positions kept, and the first record holding the identifier takes
\* the fields of the patch and keeps its others, but for the refreshed ones
updateContract(before, after, id, updates, ret, refreshed) ==
  IF positionsOf(before, id) = {}
  THEN ret = FALSE /\ after = before
  ELSE LET index == firstOf(positionsOf(before, id))
       IN  /\ ret = TRUE
           /\ Len(after) = Len(before)
           /\ \A i \in 1..Len(before) : i # index => after[i] = before[i]
           /\ DOMAIN after[index] =
                DOMAIN before[index] \cup DOMAIN updates
           /\ \A f \in DOMAIN updates \ refreshed :
                after[index][f] = updates[f]
           /\ \A f \in (DOMAIN before[index] \ DOMAIN updates) \ refreshed :
                after[index][f] = before[index][f]

\* C14: update(id, partialFields) on users and on products returns false and
\* leaves the collection unchanged when no record holds the id; otherwise
\* it returns true, the patched fields take their new values, the others
\* keep theirs, a product's updatedAt is refreshed, and the other records
\* and the order are unchanged
C14_UpdateContract ==
  [][/\ last'.op = "userStorage.update" =>
          /\ updateContract(userStorage_getAll(pos_users),
                            userStorage_getAll(pos_users'), last'.id,
                            last'.updates, last'.ret, {})
          /\ last'.ret = FALSE => pos_users' = pos_users
     /\ last'.op = "productStorage.update" =>
          /\ updateContract(productStorage_getAll(pos_products),
                            productStorage_getAll(pos_products'), last'.id,
                            last'.updates, last'.ret, {"updatedAt"})
          /\ last'.ret = FALSE => pos_products' = pos_products
          /\ last'.ret = TRUE =>
               \E i \in 1..Len(productStorage_getAll(pos_products')) :
                 LET p == productStorage_getAll(pos_products')[i]
                 IN  p.id = last'.id /\ p.updatedAt = toISOString(now)]_vars

\* a product created at 0 and renamed at 1 carries the new name, the new
\* threshold and the new timestamp, and its price and stock as they were
C14_Witness ==
  /\ last.op = "productStorage.update"
  /\ last.ret = TRUE
  /\ "name" \in DOMAIN last.updates
  /\ \E i \in 1..Len(productStorage_getAll(pos_products)) :
       LET p == productStorage_getAll(pos_products)[i]
       IN  /\ p.id = last.id
           /\ p.name = "Lucky Me Beef"
           /\ p.createdAt = toISOString(0)
           /\ p.updatedAt = toISOString(1)
           /\ p.stock = 1

\* delete(id) on a collection: true exactly when a record held the
\* identifier, no record holds it afterwards, and the others are kept in
\* their order
deleteContract(before, after, id, ret) ==
  LET keep(x) == x.id # id
  IN  /\ ret = (positionsOf(before, id) # {})
      /\ positionsOf(after, id) = {}
      /\ after = SelectSeq(before, keep)

\* C15: delete(id) on users and on products returns true exactly when a
\* record with that id was stored; afterwards no stored record has the id
\* and the others are unchanged in their relative order; when it returns
\* false the collection is unchanged
C15_DeleteContract ==
  [][/\ last'.op = "userStorage.delete" =>
          /\ deleteContract(userStorage_getAll(pos_users),
                            userStorage_getAll(pos_users'), last'.id,
                            last'.ret)
          /\ last'.ret = FALSE => pos_users' = pos_users
     /\ last'.op = "productStorage.delete" =>
          /\ deleteContract(productStorage_getAll(pos_products),
                            productStorage_getAll(pos_products'), last'.id,
                            last'.ret)
          /\ last'.ret = FALSE => pos_products' = pos_products]_vars

\* the administrator deleted, the cashier left as the only stored user
C15_Witness ==
  /\ last.op = "userStorage.delete"
  /\ last.ret = TRUE
  /\ last.id = DefaultUsers[1].id
  /\ Len(userStorage_getAll(pos_users)) = 1
  /\ userStorage_getAll(pos_users)[1].username = "cashier"

(***************************************************************************)
(* The repositories adding and deleting entities in the process that       *)
(* created the default data.  last.issued holds the identifiers that       *)
(* generateId has returned so far.                                         *)
(***************************************************************************)
idsOf(records) == {records[i].id : i \in 1..Len(records)}

NewUser == [username |-> "maria", password |-> "maria123",
            role |-> "cashier", isActive |-> TRUE]

NewProduct == [name |-> "Chippy", code |-> "CHIP", category |-> "Snacks",
               price |-> Price10, stock |-> 1, minStock |-> 0,
               isActive |-> TRUE]

idsUnchanged ==
  UNCHANGED <<pos_settings, pos_current_user, user, posVars, reportData,
              download>>

Ids_userAdd ==
  /\ Len(userStorage_getAll(pos_users)) < MaxUsers
  /\ \E r \in Rand :
       LET result == userStorage_add(pos_users, NewUser, now, r)
       IN  /\ pos_users' = result.item
           /\ last' = [op |-> "userStorage.add", ret |-> result.ret,
                       issued |-> last.issued \cup {result.ret.id}]
  /\ UNCHANGED <<pos_products, pos_sales, now>>
  /\ idsUnchanged

Ids_productAdd ==
  /\ Len(productStorage_getAll(pos_products)) < MaxProducts
  /\ \E r \in Rand :
       LET result == productStorage_add(pos_products, NewProduct, now, r)
       IN  /\ pos_products' = result.item
           /\ last' = [op |-> "productStorage.add", ret |-> result.ret,
                       issued |-> last.issued \cup {result.ret.id}]
  /\ UNCHANGED <<pos_users, pos_sales, now>>
  /\ idsUnchanged

\* salesStorage.add of a sale of one unit of a stored product, paid by card
Ids_salesAdd ==
  /\ Len(salesStorage_getAll(pos_sales)) < MaxSales
  /\ \E i \in 1..Len(productStorage_getAll(pos_products)), r \in Rand :
       LET items  == addToCart(<< >>, productStorage_getAll(pos_products)[i],
                               Undefined)
           result == salesStorage_add(
                       pos_sales, pos_products,
                       draftSale(items, pos_settings, "card", NoText, user),
                       now, r)
       IN  /\ pos_sales' = result.sales
           /\ pos_products' = result.products
           /\ last' = [op |-> "salesStorage.add", ret |-> result.ret,
                       issued |-> last.issued \cup {result.ret.id}]
  /\ UNCHANGED <<pos_users, now>>
  /\ idsUnchanged

Ids_userDelete ==
  /\ \E id \in idsOf(userStorage_getAll(pos_users)) :
       /\ pos_users' = userStorage_delete(pos_users, id).item
       /\ last' = [op |-> "userStorage.delete", id |-> id,
                   issued |-> last.issued]
  /\ UNCHANGED <<pos_products, pos_sales, now>>
  /\ idsUnchanged

Ids_productDelete ==
  /\ \E id \in idsOf(productStorage_getAll(pos_products)) :
       /\ pos_products' = productStorage_delete(pos_products, id).item
       /\ last' = [op |-> "productStorage.delete", id |-> id,
                   issued |-> last.issued]
  /\ UNCHANGED <<pos_users, pos_sales, now>>
  /\ idsUnchanged

\* the process that created the default users and a sample product, in the
\* millisecond of their creation or a later one
InitIds ==
  /\ pos_users = storage_set(DefaultUsers)
  /\ pos_products = storage_set(SubSeq(SampleProducts(1, 1), 1, 1))
  /\ pos_sales = Null
  /\ pos_settings = Null
  /\ pos_current_user = storage_set(DefaultUsers[1])
  /\ now \in 0..MaxClock
  /\ user = DefaultUsers[1]
  /\ searchResults = << >>
  /\ cart = << >>
  /\ showCheckout = FALSE
  /\ paymentMethod = "cash"
  /\ amountPaid = NoText
  /\ lastSale = Null
  /\ showReceiptDialog = FALSE
  /\ reportData = Null
  /\ download = Null
  /\ last = [op |-> "init",
             issued |-> idsOf(DefaultUsers)
                          \cup {SampleProducts(1, 1)[1].id}]

NextIds ==
  \/ Ids_userAdd
  \/ Ids_productAdd
  \/ Ids_salesAdd
  \/ Ids_userDelete
  \/ Ids_productDelete

SpecIds == InitIds /\ [][NextIds]_vars

\* add on a collection: the returned entity carries an identifier that no
\* stored entity carried, and the collection is the previous one with the
\* returned entity appended
addContract(before, after, ret) ==
  /\ ret.id \notin idsOf(before)
  /\ after = Append(before, ret)

\* C13: for users, products and sales, add returns an entity whose id
\* differs from the id of every entity stored in that repository, and
\* getAll() afterwards is the previous collection, in its order, with the
\* returned entity appended last
C13_AddContract ==
  [][/\ last'.op = "userStorage.add" =>
          addContract(userStorage_getAll(pos_users),
                      userStorage_getAll(pos_users'), last'.ret)
     /\ last'.op = "productStorage.add" =>
          addContract(productStorage_getAll(pos_products),
                      productStorage_getAll(pos_products'), last'.ret)
     /\ last'.op = "salesStorage.add" =>
          addContract(salesStorage_getAll(pos_sales),
                      salesStorage_getAll(pos_sales'), last'.ret)]_vars

\* C16: an identifier that generateId returns for a new entity was never
\* returned before in the process, be the entity that carried it stored or
\* deleted since
C16_IdsNeverReused ==
  [][last'.op \in {"userStorage.add", "productStorage.add",
                   "salesStorage.add"} =>
       last'.ret.id \notin last.issued]_vars

\* the positions of the products that are active and at or under their
\* minimum stock
lowPositions(products) ==
  {i \in 1..Len(products) :
     products[i].isActive /\ products[i].stock <= products[i].minStock}

\* C17: getLowStockAlerts returns one alert for each stored product that is
\* active with stock <= minStock, in the order of the collection, and none
\* for any other product; an alert is critical exactly when its
\* currentStock is 0 and low otherwise
C17_LowStockAlerts ==
  LET products == productStorage_getAll(pos_products)
      low      == lowPositions(products)
      rank(i)  == Cardinality({j \in low : j <= i})
  IN  last.op = "getLowStockAlerts" =>
        /\ Len(last.ret) = Cardinality(low)
        /\ \A i \in low :
             /\ last.ret[rank(i)].productId = products[i].id
             /\ last.ret[rank(i)].productName = products[i].name
             /\ last.ret[rank(i)].currentStock = products[i].stock
             /\ last.ret[rank(i)].minStock = products[i].minStock
        /\ \A k \in 1..Len(last.ret) :
             last.ret[k].severity =
               IF last.ret[k].currentStock = 0 THEN "critical" ELSE "low"

\* the noodles sold out and the crackers typed in at -1: a critical alert
\* followed by a low one
C17_Witness ==
  /\ last.op = "getLowStockAlerts"
  /\ Len(last.ret) = 2
  /\ last.ret[1].currentStock = 0
  /\ last.ret[1].severity = "critical"
  /\ last.ret[2].currentStock < 0
  /\ last.ret[2].severity = "low"

\* C18: with no settings stored, settingsStorage.get returns a default
\* document whose taxRate is 0.12 and whose currency is PHP; with a settings
\* document stored, it returns that document; and it writes nothing
C18_SettingsGet ==
  [][last'.op = "settingsStorage.get" =>
       /\ pos_settings = Null =>
            /\ last'.ret.taxRate = Dec(12, 100)
            /\ last'.ret.currency = "PHP"
       /\ pos_settings # Null => last'.ret = JSON_parse(pos_settings)
       /\ UNCHANGED storeVars]_vars

\* the stored settings document is read back, the store name among its
\* fields
C18_Witness ==
  /\ last.op = "settingsStorage.get"
  /\ pos_settings # Null
  /\ last.ret.storeName = "Tindahan"
  /\ last.ret = JSON_parse(pos_settings)

(***************************************************************************)
(* The POS page recording one sale after another, each of one product,     *)
(* paid by card, its receipt printed or skipped.                           *)
(***************************************************************************)
\* the Add button pressed on an empty cart
Ledger_addToCart ==
  /\ cart = << >>
  /\ addToCartUpTo(MaxReceipts)

Ledger_processSale == processSaleUpTo(MaxReceipts)

\* the page after the cashier chose card as the payment method and went
\* back to the products
InitLedger ==
  /\ pos_users = storage_set(DefaultUsers)
  /\ \E s1 \in 1..MaxStock :
       pos_products = storage_set(SampleProducts(s1, 1))
  /\ pos_sales = Null
  /\ pos_settings = Null
  /\ pos_current_user = storage_set(DefaultUsers[2])
  /\ now = 0
  /\ user = DefaultUsers[2]
  /\ searchResults = popularProducts(pos_products)
  /\ cart = << >>
  /\ showCheckout = FALSE
  /\ paymentMethod = "card"
  /\ amountPaid = << >>
  /\ lastSale = Null
  /\ showReceiptDialog = FALSE
  /\ reportData = Null
  /\ download = Null
  /\ last = [op |-> "init"]

NextLedger ==
  \/ Ledger_addToCart
  \/ POS_handleCheckout
  \/ POS_cancelCheckout
  \/ Ledger_processSale
  \/ POS_handlePrintReceipt
  \/ POS_skipReceipt

SpecLedger == InitLedger /\ [][NextLedger]_vars

\* a sale but for its receiptPrinted flag
recorded(sale) == [f \in DOMAIN sale \ {"receiptPrinted"} |-> sale[f]]

\* the positions of the sales whose receiptPrinted flag differs
reflagged(before, after) ==
  {i \in 1..Len(before) : after[i].receiptPrinted # before[i].receiptPrinted}

\* C19: a sale of the ledger keeps its place and all its fields but
\* receiptPrinted through every checkout and receipt print, and printing
\* the receipt of a sale changes the flag of that one sale only
C19_SaleImmutable ==
  [][LET before == salesStorage_getAll(pos_sales)
         after  == salesStorage_getAll(pos_sales')
     IN  /\ Len(after) >= Len(before)
         /\ \A i \in 1..Len(before) : recorded(after[i]) = recorded(before[i])
         /\ Cardinality(reflagged(before, after)) <= 1
         /\ \A i \in reflagged(before, after) :
              /\ last'.op = "handlePrintReceipt"
              /\ lastSale # Null
              /\ after[i].id = lastSale.id
              /\ after[i].receiptPrinted = TRUE]_vars

(***************************************************************************)
(* Users page.  The page reloads its list after every change it makes, so  *)
(* the rows it shows are the stored users; user is the signed-in account.  *)
(***************************************************************************)
\* currentUser?.id
currentUserId == IF user = Null THEN Undefined ELSE user.id

\* the forms submitted for an existing user: the username kept or retyped,
\* a new password typed or not, the role kept or set to cashier, the Active
\* switch either way
UserEditForms(u) ==
  [username : {u.username, "cashier"}, password : {"", "letmein"},
   confirmPassword : {"", "letmein"}, role : {u.role, "cashier"},
   isActive : BOOLEAN]

\* the forms submitted for a new user
UserNewForms ==
  [username : {"maria", "admin"}, password : {"", "maria123"},
   confirmPassword : {"maria123"}, role : {"cashier"}, isActive : {TRUE}]

\* userData of handleSubmit: the password is part of it when one was typed
userData(formData) ==
  IF formData.password # ""
  THEN [username |-> formData.username, role |-> formData.role,
        isActive |-> formData.isActive, password |-> formData.password]
  ELSE [username |-> formData.username, role |-> formData.role,
        isActive |-> formData.isActive]

\* handleSubmit, editing: the user found under the new username, looked for
\* only when the username was changed
existingUser_edit(users, editingUser, username) ==
  /\ editingUser.username # username
  /\ \E j \in 1..Len(users) :
       /\ users[j].username = username
       /\ users[j].id # editingUser.id

\* handleSubmit, creating: the user found under the username
existingUser_add(users, username) ==
  \E j \in 1..Len(users) : users[j].username = username

usersUnchanged ==
  UNCHANGED <<pos_products, pos_sales, pos_settings, pos_current_user, now,
              user, posVars, reportData, download>>

\* the delete button of a row, and the answer to window.confirm
Users_handleDeleteUser ==
  /\ \E i \in 1..Len(userStorage_getAll(pos_users)), confirm \in BOOLEAN :
       LET row == userStorage_getAll(pos_users)[i]
           res == userStorage_delete(pos_users, row.id)
       IN  IF row.id = currentUserId \/ ~confirm
           THEN /\ last' = [op |-> "handleDeleteUser", ret |-> FALSE]
                /\ UNCHANGED pos_users
           ELSE /\ pos_users' = res.item
                /\ last' = [op |-> "handleDeleteUser", ret |-> res.ret]
  /\ usersUnchanged

\* the status button of a row
Users_toggleUserStatus ==
  /\ \E i \in 1..Len(userStorage_getAll(pos_users)) :
       LET row == userStorage_getAll(pos_users)[i]
           res == userStorage_update(pos_users, row.id,
                                     [isActive |-> ~row.isActive])
       IN  IF row.id = currentUserId
           THEN /\ last' = [op |-> "toggleUserStatus", ret |-> FALSE]
                /\ UNCHANGED pos_users
           ELSE /\ pos_users' = res.item
                /\ last' = [op |-> "toggleUserStatus", ret |-> res.ret]
  /\ usersUnchanged

\* handleSubmit of the dialog opened by the edit button of a row
Users_handleSubmit_edit ==
  /\ \E i \in 1..Len(userStorage_getAll(pos_users)) :
       \E formData \in UserEditForms(userStorage_getAll(pos_users)[i]) :
         LET users       == userStorage_getAll(pos_users)
             editingUser == users[i]
             res         == userStorage_update(pos_users, editingUser.id,
                                               userData(formData))
         IN  IF \/ formData.username = ""
                \/ /\ formData.password # ""
                   /\ formData.password # formData.confirmPassword
                \/ existingUser_edit(users, editingUser, formData.username)
             THEN /\ last' = [op |-> "handleSubmit", editing |-> TRUE,
                              id |-> editingUser.id,
                              username |-> formData.username, ret |-> FALSE]
                  /\ UNCHANGED pos_users
             ELSE /\ pos_users' = res.item
                  /\ last' = [op |-> "handleSubmit", editing |-> TRUE,
                              id |-> editingUser.id,
                              username |-> formData.username,
                              ret |-> res.ret]
  /\ usersUnchanged

\* handleSubmit of the dialog opened by Add User
Users_handleSubmit_add ==
  /\ Len(userStorage_getAll(pos_users)) < MaxUsers
  /\ \E formData \in UserNewForms, r \in Rand :
       LET users == userStorage_getAll(pos_users)
       IN  IF \/ formData.username = ""
              \/ formData.password = ""
              \/ formData.password # formData.confirmPassword
              \/ existingUser_add(users, formData.username)
           THEN /\ last' = [op |-> "handleSubmit", editing |-> FALSE,
                            username |-> formData.username, ret |-> FALSE]
                /\ UNCHANGED pos_users
           ELSE /\ pos_users' =
                     userStorage_add(
                       pos_users,
                       [username |-> formData.username,
                        password |-> formData.password,
                        role |-> formData.role,
                        isActive |-> formData.isActive], now, r).item
                /\ last' = [op |-> "handleSubmit", editing |-> FALSE,
                            username |-> formData.username, ret |-> TRUE]
  /\ usersUnchanged

\* the Users page opened by the administrator some time after the default
\* data was created
InitUsers ==
  /\ pos_users = storage_set(DefaultUsers)
  /\ pos_products = storage_set(SampleProducts(1, 1))
  /\ pos_sales = Null
  /\ pos_settings = Null
  /\ pos_current_user = storage_set(DefaultUsers[1])
  /\ now = 1
  /\ user = DefaultUsers[1]
  /\ searchResults = << >>
  /\ cart = << >>
  /\ showCheckout = FALSE
  /\ paymentMethod = "cash"
  /\ amountPaid = NoText
  /\ lastSale = Null
  /\ showReceiptDialog = FALSE
  /\ reportData = Null
  /\ download = Null
  /\ last = [op |-> "init"]

NextUsers ==
  \/ Users_handleDeleteUser
  \/ Users_toggleUserStatus
  \/ Users_handleSubmit_edit
  \/ Users_handleSubmit_add

SpecUsers == InitUsers /\ [][NextUsers]_vars

\* C20: whatever the Users page does (delete, status toggle, edit form), the
\* signed-in user stays in the users repository and stays active
C20_CurrentUserKept ==
  \E i \in 1..Len(userStorage_getAll(pos_users)) :
    /\ userStorage_getAll(pos_users)[i].id = currentUserId
    /\ userStorage_getAll(pos_users)[i].isActive

\* no two stored users carry the same username
uniqueUsernames(users) ==
  \A i, j \in 1..Len(users) : i # j => users[i].username # users[j].username

\* a handleSubmit step whose username another stored user holds
takenSubmit ==
  /\ last'.op = "handleSubmit"
  /\ \E j \in 1..Len(userStorage_getAll(pos_users)) :
       /\ userStorage_getAll(pos_users)[j].username = last'.username
       /\ last'.editing => userStorage_getAll(pos_users)[j].id # last'.id

\* C21: from the default data on, through every creation and edit of the
\* Users page, no two stored users carry the same username, and a creation
\* or a rename to a username that another user holds is rejected and leaves
\* the users repository as it was
C21_UniqueUsernames ==
  /\ [](uniqueUsernames(userStorage_getAll(pos_users)))
  /\ [][takenSubmit => last'.ret = FALSE /\ pos_users' = pos_users]_vars

(***************************************************************************)
(* The user repository over a store that may reject a write.               *)
(* localStorage.setItem then throws, storage.set catches and logs the      *)
(* error, and the key keeps the text it had.                               *)
(***************************************************************************)
\* the item under a key after storage.set(key, value), saved being the text
\* that the repository computed for it
storage_setOrKeep(item, saved, accepted) == IF accepted THEN saved ELSE item

UserPatches == {[isActive |-> FALSE], [password |-> "letmein"]}

Quota_userAdd ==
  /\ Len(userStorage_getAll(pos_users)) < MaxUsers
  /\ \E r \in Rand, accepted \in BOOLEAN :
       LET result == userStorage_add(pos_users, NewUser, now, r)
       IN  /\ pos_users' = storage_setOrKeep(pos_users, result.item, accepted)
           /\ last' = [op |-> "userStorage.add", ret |-> result.ret,
                       accepted |-> accepted]
  /\ UNCHANGED pos_products
  /\ reposUnchanged

Quota_userUpdate ==
  /\ \E id \in userIds(pos_users), updates \in UserPatches,
        accepted \in BOOLEAN :
       LET result == userStorage_update(pos_users, id, updates)
       IN  /\ pos_users' = storage_setOrKeep(pos_users, result.item, accepted)
           /\ last' = [op |-> "userStorage.update", ret |-> result.ret,
                       accepted |-> accepted]
  /\ UNCHANGED pos_products
  /\ reposUnchanged

Quota_userDelete ==
  /\ \E id \in userIds(pos_users), accepted \in BOOLEAN :
       LET result == userStorage_delete(pos_users, id)
       IN  /\ pos_users' = storage_setOrKeep(pos_users, result.item, accepted)
           /\ last' = [op |-> "userStorage.delete", ret |-> result.ret,
                       accepted |-> accepted]
  /\ UNCHANGED pos_products
  /\ reposUnchanged

NextQuota ==
  \/ Quota_userAdd
  \/ Quota_userUpdate
  \/ Quota_userDelete

SpecQuota == InitRepos /\ [][NextQuota]_vars

\* C22: a repository operation whose write the store rejected does not
\* report success: update and delete do not return true, and add does not
\* return the entity as if it were stored
C22_WriteFailureSurfaced ==
  (last.op \in {"userStorage.add", "userStorage.update", "userStorage.delete"}
     /\ ~last.accepted) =>
    IF last.op = "userStorage.add" THEN last.ret = Null
    ELSE last.ret # TRUE

(***************************************************************************)
(* The repositories read over a store whose keys may be missing or hold a  *)
(* text that is not JSON (the store is shared with the browser, which can  *)
(* clear or overwrite a key while the application runs).                   *)
(***************************************************************************)
Reads_userGetAll ==
  /\ last' = [op |-> "userStorage.getAll",
              ret |-> userStorage_getAll(pos_users)]
  /\ UNCHANGED <<pos_users, pos_products>>
  /\ reposUnchanged

Reads_productGetAll ==
  /\ last' = [op |-> "productStorage.getAll",
              ret |-> productStorage_getAll(pos_products)]
  /\ UNCHANGED <<pos_users, pos_products>>
  /\ reposUnchanged

Reads_salesGetAll ==
  /\ last' = [op |-> "salesStorage.getAll",
              ret |-> salesStorage_getAll(pos_sales)]
  /\ UNCHANGED <<pos_users, pos_products>>
  /\ reposUnchanged

InitReads ==
  /\ pos_users \in {Null, SyntaxErrorFile, storage_set(DefaultUsers)}
  /\ \E found \in {"missing", "corrupt", "unsold", "sold"} :
       /\ pos_products =
            CASE found = "missing" -> Null
              [] found = "corrupt" -> SyntaxErrorFile
              [] found = "unsold" -> storage_set(SampleProducts(1, 1))
              [] found = "sold" -> SampleLedger.products
       /\ pos_sales =
            CASE found = "missing" -> Null
              [] found = "corrupt" -> SyntaxErrorFile
              [] found = "unsold" -> Null
              [] found = "sold" -> SampleLedger.sales
  /\ pos_settings = Null
  /\ pos_current_user = storage_set(DefaultUsers[1])
  /\ now = 1
  /\ user = DefaultUsers[1]
  /\ searchResults = << >>
  /\ cart = << >>
  /\ showCheckout = FALSE
  /\ paymentMethod = "cash"
  /\ amountPaid = NoText
  /\ lastSale = Null
  /\ showReceiptDialog = FALSE
  /\ reportData = Null
  /\ download = Null
  /\ last = [op |-> "init"]

NextReads ==
  \/ Reads_userGetAll
  \/ Reads_productGetAll
  \/ Reads_salesGetAll
  \/ Repo_userUpdate
  \/ Repo_userDelete
  \/ Repo_productUpdate
  \/ Repo_productDelete

SpecReads == InitReads /\ [][NextReads]_vars

GetAllOps ==
  {"userStorage.getAll", "productStorage.getAll", "salesStorage.getAll"}

\* the item that a getAll reads
itemRead(op) ==
  CASE op = "userStorage.getAll" -> pos_users
    [] op = "productStorage.getAll" -> pos_products
    [] op = "salesStorage.getAll" -> pos_sales

\* C23: a getAll changes no key of the store; a getAll that follows a
\* getAll of the same repository with no write in between returns an equal
\* collection; and over a key that is missing or holds a text that does not
\* parse, getAll returns the empty list
C23_ReadsDoNotWrite ==
  [][last'.op \in GetAllOps =>
       /\ UNCHANGED storeVars
       /\ last.op = last'.op => last'.ret = last.ret
       /\ (itemRead(last'.op) = Null \/ itemRead(last'.op) = SyntaxErrorFile)
            => last'.ret = << >>]_vars

\* the users key holds a text that is not JSON and getAll returns no user
C23_Witness ==
  /\ last.op = "userStorage.getAll"
  /\ pos_users = SyntaxErrorFile
  /\ last.ret = << >>

(***************************************************************************)
(* salesStorage.getByDateRange called over the ledgers of the Reports      *)
(* page, for dates from the day before the first to the day after the last.*)
(***************************************************************************)
RangeDates == (0 - 1)..(ISODate(MaxClock) + 1)

Repo_getByDateRange ==
  /\ \E startDate, endDate \in RangeDates :
       last' = [op |-> "getByDateRange", start |-> startDate,
                end |-> endDate,
                ret |-> salesStorage_getByDateRange(pos_sales, startDate,
                                                    endDate)]
  /\ UNCHANGED <<now, reportData>>
  /\ reportsUnchanged

NextRange == Repo_getByDateRange \/ Reports_tick

SpecRange == InitReports /\ [][NextRange]_vars

\* the positions of the sales dated from start to end, both included
datedWithin(sales, start, end) ==
  {i \in 1..Len(sales) : start <= sales[i].date /\ sales[i].date <= end}

\* C24: getByDateRange(start, end) returns the stored sales whose date d
\* satisfies start <= d <= end, all of them and no other, in the order of
\* the ledger, and the empty list when start > end
C24_DateRange ==
  LET sales   == salesStorage_getAll(pos_sales)
      within  == datedWithin(sales, last.start, last.end)
      rank(i) == Cardinality({j \in within : j <= i})
  IN  last.op = "getByDateRange" =>
        /\ Len(last.ret) = Cardinality(within)
        /\ \A i \in within : last.ret[rank(i)] = sales[i]
        /\ last.start > last.end => last.ret = << >>

\* a range of one day returns the sales of that day and leaves out a sale
\* of another day
C24_Witness ==
  /\ last.op = "getByDateRange"
  /\ last.start = last.end
  /\ Len(last.ret) >= 1
  /\ Len(last.ret) < Len(salesStorage_getAll(pos_sales))
  /\ \A k \in 1..Len(last.ret) : last.ret[k].date = last.end

\* a generateReport step that follows a generateReport over the same dates,
\* both having built a report
ReportAgain ==
  /\ last.op = "generateReport"
  /\ last'.op = "generateReport"
  /\ last.ret
  /\ last'.ret
  /\ last'.start = last.start
  /\ last'.end = last.end

textOr(currentSettings, field, fallback) ==
  IF field \in DOMAIN currentSettings /\ currentSettings[field] # ""
  THEN currentSettings[field] ELSE fallback

\* loadSettings: the form filled from settingsStorage.get()
loadSettings(item) ==
  LET currentSettings == settingsStorage_get(item)
  IN  [storeName |-> textOr(currentSettings, "storeName", "Sari-sari Store"),
       storeAddress |-> textOr(currentSettings, "storeAddress",
                               "123 Main Street"),
       storePhone |-> textOr(currentSettings, "storePhone",
                             "+63 123 456 7890"),
       storeEmail |-> textOr(currentSettings, "storeEmail", ""),
       taxRate |-> IF "taxRate" \in DOMAIN currentSettings
                      /\ currentSettings.taxRate # Num(0)
                   THEN currentSettings.taxRate ELSE DefaultTaxRate,
       currency |-> textOr(currentSettings, "currency", "PHP"),
       receiptFooter |-> textOr(currentSettings, "receiptFooter",
                                "Thank you for your purchase!")]

\* handleInputChange('taxRate', value) for the text of the input: the
\* percentage typed, divided by 100, and 0 for a text that is no number
handleInputChange_taxRate(settings, value) ==
  [settings EXCEPT !.taxRate = IF value = NoText THEN Num(0)
                               ELSE FDiv(parseFloat(value), 100)]

\* handleInputChange for the other fields
handleInputChange(settings, field, value) ==
  [settings EXCEPT ![field] = value]

\* the percentages typed into the Tax Rate input
TaxTexts == {NoText} \cup {toString(Num(n)) : n \in {0, 12, 50, 100, 150}}

StoreNames == {"Sari-sari Store", "Tindahan", "Aling Nena"}

Footers == {"Thank you for your purchase!", "Salamat po!"}

Emails == {"", "tindahan@example.com"}

\* the page opened, its fields retyped or left alone, and Save pressed
Settings_handleSaveSettings ==
  /\ \E retyped \in SUBSET {"storeName", "storeEmail", "receiptFooter",
                             "taxRate"},
        name \in StoreNames, email \in Emails, footer \in Footers,
        value \in TaxTexts :
       LET loaded   == loadSettings(pos_settings)
           named    == IF "storeName" \in retyped
                       THEN handleInputChange(loaded, "storeName", name)
                       ELSE loaded
           mailed   == IF "storeEmail" \in retyped
                       THEN handleInputChange(named, "storeEmail", email)
                       ELSE named
           footed   == IF "receiptFooter" \in retyped
                       THEN handleInputChange(mailed, "receiptFooter", footer)
                       ELSE mailed
           settings == IF "taxRate" \in retyped
                       THEN handleInputChange_taxRate(footed, value)
                       ELSE footed
       IN  /\ pos_settings' = settingsStorage_save(settings)
           /\ last' = [op |-> "handleSaveSettings",
                       taxRate |-> IF "taxRate" \in retyped THEN value
                                   ELSE NoText]
  /\ UNCHANGED <<pos_users, pos_products, pos_sales, download>>
  /\ backupUnchanged

InitSettings ==
  /\ pos_users = storage_set(DefaultUsers)
  /\ pos_products = storage_set(SampleProducts(1, 1))
  /\ pos_sales = Null
  /\ pos_settings = Null
  /\ pos_current_user = storage_set(DefaultUsers[1])
  /\ now = 1
  /\ user = DefaultUsers[1]
  /\ searchResults = << >>
  /\ cart = << >>
  /\ showCheckout = FALSE
  /\ paymentMethod = "cash"
  /\ amountPaid = NoText
  /\ lastSale = Null
  /\ showReceiptDialog = FALSE
  /\ reportData = Null
  /\ download = Null
  /\ last = [op |-> "init"]

NextSettings ==
  \/ Settings_handleSaveSettings
  \/ Repo_settingsGet

SpecSettings == InitSettings /\ [][NextSettings]_vars

\* C26: the settings document that the Settings page has stored carries a
\* taxRate from 0 to 1, whatever was typed and saved
C26_TaxRateInRange ==
  pos_settings # Null =>
    /\ ~FLt(JSON_parse(pos_settings).taxRate, Num(0))
    /\ ~FLt(Num(1), JSON_parse(pos_settings).taxRate)

(***************************************************************************)
(* Authentication: the session kept by AuthProvider in memory (user) and   *)
(* under the current-user key, with the Users page of an administrator.    *)
(***************************************************************************)
\* initializeDefaultData: the default users and the sample products, made
\* when the repository is empty
initializeDefaultData(usersItem, productsItem) ==
  [users |-> IF Len(userStorage_getAll(usersItem)) = 0
             THEN userStorage_save(DefaultUsers) ELSE usersItem,
   products |-> IF Len(productStorage_getAll(productsItem)) = 0
                THEN productStorage_save(SampleProducts(1, 1))
                ELSE productsItem]

authStorage_getCurrentUser(item) == storage_get(item)

authStorage_setCurrentUser(u) == storage_set(u)

\* storage.remove: the key is absent afterwards
authStorage_logout_keyKept == pos_current_user

authStorage_logout == Null

sessionUnchanged ==
  UNCHANGED <<pos_sales, pos_settings, now, posVars, reportData, download>>

\* the mount effect of AuthProvider, run by a reload of the page
Auth_reload ==
  /\ pos_users' = initializeDefaultData(pos_users, pos_products).users
  /\ pos_products' = initializeDefaultData(pos_users, pos_products).products
  /\ user' = authStorage_getCurrentUser(pos_current_user)
  /\ last' = [op |-> "reload"]
  /\ UNCHANGED pos_current_user
  /\ sessionUnchanged

\* login, called by the Login page, which is shown when nobody is signed in
Auth_login ==
  /\ user = Null
  /\ \E username \in Usernames, password \in Passwords :
       LET foundUser == userStorage_findByCredentials(pos_users, username,
                                                      password)
       IN  IF foundUser # Null
           THEN /\ user' = foundUser
                /\ pos_current_user' = authStorage_setCurrentUser(foundUser)
                /\ last' = [op |-> "login", username |-> username,
                            password |-> password, ret |-> TRUE]
           ELSE /\ UNCHANGED <<user, pos_current_user>>
                /\ last' = [op |-> "login", username |-> username,
                            password |-> password, ret |-> FALSE]
  /\ UNCHANGED <<pos_users, pos_products>>
  /\ sessionUnchanged

\* logout, called by the button of the layout of a signed-in user
Auth_logout ==
  /\ user # Null
  /\ user' = Null
  /\ pos_current_user' = authStorage_logout
  /\ last' = [op |-> "logout"]
  /\ UNCHANGED <<pos_users, pos_products>>
  /\ sessionUnchanged

isLoggedIn == user # Null

\* ProtectedRoute: where a route requiring a role (or none, "") leads
ProtectedRoute(requiredRole) ==
  IF ~isLoggedIn THEN "/login"
  ELSE IF requiredRole # "" /\ user.role # requiredRole
  THEN (IF user.role = "admin" THEN "/admin" ELSE "/cashier")
  ELSE "children"

\* ProtectedRoute with requiredRole admin lets the signed-in user through
adminRoute == user # Null /\ user.role = "admin"

Session_handleSubmit_edit == adminRoute /\ Users_handleSubmit_edit

Session_handleDeleteUser == adminRoute /\ Users_handleDeleteUser

Session_toggleUserStatus == adminRoute /\ Users_toggleUserStatus

\* nobody signed in, the default data stored
InitSession ==
  /\ pos_users = storage_set(DefaultUsers)
  /\ pos_products = storage_set(SampleProducts(1, 1))
  /\ pos_sales = Null
  /\ pos_settings = Null
  /\ pos_current_user = Null
  /\ now = 1
  /\ user = Null
  /\ searchResults = << >>
  /\ cart = << >>
  /\ showCheckout = FALSE
  /\ paymentMethod = "cash"
  /\ amountPaid = NoText
  /\ lastSale = Null
  /\ showReceiptDialog = FALSE
  /\ reportData = Null
  /\ download = Null
  /\ last = [op |-> "init"]

NextSession ==
  \/ Auth_reload
  \/ Auth_login
  \/ Auth_logout
  \/ Session_handleSubmit_edit
  \/ Session_handleDeleteUser
  \/ Session_toggleUserStatus

SpecSession == InitSession /\ [][NextSession]_vars

\* the users that the session denotes: the one in memory and the one under
\* the current-user key
sessionUsers ==
  (IF user = Null THEN {} ELSE {user})
    \cup (IF pos_current_user = Null THEN {}
          ELSE {JSON_parse(pos_current_user)})

\* C27: the user of a session, in memory or under the current-user key, is
\* stored in the users repository, active, and of the role that the stored
\* record carries
C27_SessionValid ==
  \A s \in sessionUsers :
    \E i \in 1..Len(userStorage_getAll(pos_users)) :
      /\ userStorage_getAll(pos_users)[i].id = s.id
      /\ userStorage_getAll(pos_users)[i].isActive
      /\ userStorage_getAll(pos_users)[i].role = s.role

\* C28: login returns true exactly when findByCredentials finds a user, and
\* then the user in memory and the current-user key both hold that user; a
\* failed login returns false and leaves both as they were; logout clears
\* both, after which every protected route leads to /login, and nobody is
\* signed in again but by a successful login
C28_LoginLogout ==
  [][/\ last'.op = "login" =>
          LET foundUser == userStorage_findByCredentials(
                             pos_users, last'.username, last'.password)
          IN  /\ last'.ret = (foundUser # Null)
              /\ last'.ret => /\ user' = foundUser
                              /\ pos_current_user' # Null
                              /\ JSON_parse(pos_current_user') = foundUser
              /\ ~last'.ret => UNCHANGED <<user, pos_current_user>>
     /\ last'.op = "logout" =>
          /\ user' = Null
          /\ pos_current_user' = Null
          /\ ~isLoggedIn'
          /\ \A requiredRole \in {"", "admin", "cashier"} :
               ProtectedRoute(requiredRole)' = "/login"
     /\ (user = Null /\ pos_current_user = Null
           /\ (user' # Null \/ pos_current_user' # Null)) =>
          last'.op = "login" /\ last'.ret]_vars

\* signed out after having been signed in: nothing in memory, nothing under
\* the key
C28_Witness ==
  /\ last.op = "logout"
  /\ user = Null
  /\ pos_current_user = Null
  /\ ProtectedRoute("admin") = "/login"

(***************************************************************************)
(* Claims about the checkout and the cart (SpecPOS).                       *)
(***************************************************************************)
\* Complete Sale pressed for a cash payment that does not cover the total
shortCashCheckout ==
  /\ last'.op = "processSale"
  /\ paymentMethod = "cash"
  /\ FLt(parseFloatOr0(amountPaid), calculateTotal(cart, pos_settings))

\* C29: a cash checkout paying less than the total is rejected without
\* effect (no sale appended, no stock changed, the cart kept); every recorded
\* sale has change >= 0, change = amountPaid - total when paid in cash and
\* change = 0 when paid by card or otherwise
C29_CashCheckout ==
  /\ [][shortCashCheckout =>
          /\ last'.ret = Null
          /\ pos_sales' = pos_sales
          /\ pos_products' = pos_products
          /\ cart' = cart]_vars
  /\ [](\A i \in 1..Len(salesStorage_getAll(pos_sales)) :
          LET sale == salesStorage_getAll(pos_sales)[i]
          IN  /\ ~FLt(sale.change, Num(0))
              /\ sale.paymentMethod = "cash" =>
                   /\ ~FLt(sale.amountPaid, sale.total)
                   /\ sale.change = FSub(sale.amountPaid, sale.total)
              /\ sale.paymentMethod # "cash" => sale.change = Num(0))

\* a cash checkout of a cart of 30.24 against 20 paid has just been refused
C29_Witness ==
  /\ last.op = "processSale"
  /\ last.ret = Null
  /\ showCheckout
  /\ paymentMethod = "cash"
  /\ amountPaid = toString(20)
  /\ Len(cart) = 2
  /\ FLt(Num(20), calculateTotal(cart, pos_settings))
  /\ salesStorage_getAll(pos_sales) = << >>

\* the cart without its i-th line
withoutLine(items, i) ==
  SubSeq(items, 1, i - 1) \o SubSeq(items, i + 1, Len(items))

\* C30: after any sequence of addToCart, updateCartQuantity, removeFromCart
\* and clearCart every cart line has quantity >= 1 and
\* total = price * quantity, and no two lines share the pair
\* (productId, variantId); setting the quantity of a line to 0 or less
\* removes that line and leaves the other lines as they were
C30_CartLines ==
  /\ [](/\ \A i \in 1..Len(cart) :
             /\ cart[i].quantity >= 1
             /\ cart[i].total = FMul(cart[i].price, Num(cart[i].quantity))
        /\ \A i, j \in 1..Len(cart) :
             (cart[i].productId = cart[j].productId
                /\ cart[i].variantId = cart[j].variantId) => i = j)
  /\ [][last'.op = "decrement" =>
          \E i \in 1..Len(cart) :
            IF cart[i].quantity - 1 <= 0
            THEN cart' = withoutLine(cart, i)
            ELSE cart' = [cart EXCEPT
                            ![i].quantity = cart[i].quantity - 1,
                            ![i].total =
                              FMul(cart[i].price, Num(cart[i].quantity - 1))]
      ]_vars
  /\ [][last'.op = "clearCart" => cart' = << >>]_vars

\* the - button has just removed a line of quantity 1 from a cart of two
\* lines: the line left holds the full quantity, which no decrement of it
\* leaves behind
C30_Witness ==
  /\ last.op = "decrement"
  /\ Len(cart) = 1
  /\ cart[1].quantity = MaxQuantity
  /\ cart[1].total = FMul(cart[1].price, Num(MaxQuantity))

====
